---- MODULE Spec2Model ----
(***************************************************************************)
(* Model of LSRIS: the mathematical engine (src/src/utils/math.ts), the    *)
(* localStorage layer (src/src/utils/storage.ts), the PIN screen           *)
(* (src/src/components/Login.tsx) and the sales-entry page with its cloud  *)
(* calls (src/unnamed/part_001, src/src/pages/Costs.tsx).                  *)
(*                                                                         *)
(* Numbers.  A JavaScript number is modelled as an exact rational          *)
(* <<num, den>> in lowest terms with den > 0; the pair <<0, 0>> is NaN,    *)
(* the marker the engine pushes for positions before a window fills.       *)
(* A value that involves Math.sqrt is modelled as a surd <<r, c, q>>,      *)
(* standing for r + c * sqrt(q) with r, c rational and q a square-free     *)
(* integer (q = 1 and c = 0 when the value is rational).  This arithmetic  *)
(* is exact, so an equality stated in it is the "within floating-point     *)
(* tolerance" equality of the engine's description.  Where the code        *)
(* compares a computed double with === (autocorrelation), the numbers are  *)
(* IEEE-754 binary64 values <<sign, significand, exponent>> and every      *)
(* operation rounds to nearest, ties to even.                              *)
(*                                                                         *)
(* Each engine function is an operator with the source's name.  A          *)
(* specification draws one call's arguments in its initial state (pc =     *)
(* "ready", the arguments in call) and its action applies the function     *)
(* (pc = "done", the result in ret).                                       *)
(*                                                                         *)
(* The application's specifications have one action per handler or         *)
(* timeout callback; call records the last one that ran and ret what it    *)
(* reported.  Pending timeouts are kept in the order they were started,    *)
(* and one may run when no timeout started before it has a delay that is   *)
(* not longer.                                                             *)
(***************************************************************************)
EXTENDS Integers, Sequences, FiniteSets, TLC

VARIABLES call, ret, pc, localStorage, cloud, screen, timers

vars == <<call, ret, pc, localStorage, cloud, screen, timers>>

\* The state of the application: the browser's localStorage, the cloud
\* database with its signed-in user, the state of the mounted component and
\* the timeouts that are pending
app == <<localStorage, cloud, screen, timers>>

NoRet == <<>>

\* The engine's functions are pure: in their specifications the
\* application does not exist
NoApp ==
    /\ localStorage = <<>>
    /\ cloud = <<>>
    /\ screen = <<>>
    /\ timers = <<>>

\* ------------------------------------------------------------------------
\* Exact rational arithmetic
\* ------------------------------------------------------------------------

Abs(x) == IF x < 0 THEN -x ELSE x

RECURSIVE Gcd(_, _)
Gcd(a, b) == IF b = 0 THEN a ELSE Gcd(b, a % b)

NaN == <<0, 0>>

isNaN(x) == x[2] = 0

\* n / d in lowest terms; a zero denominator is NaN (0/0) as far as the
\* engine can reach it.
Rat(n, d) ==
    IF d = 0 THEN NaN
    ELSE LET g == Gcd(Abs(n), Abs(d))
             s == IF d < 0 THEN -1 ELSE 1
         IN  <<(s * n) \div g, (s * d) \div g>>

I(n) == <<n, 1>>

\* x + y over the least common denominator, which keeps the integers small
RAdd(x, y) ==
    IF isNaN(x) \/ isNaN(y) THEN NaN
    ELSE LET g == Gcd(x[2], y[2])
         IN  Rat(x[1] * (y[2] \div g) + y[1] * (x[2] \div g), (x[2] \div g) * y[2])

RNeg(x) == <<-x[1], x[2]>>

RSub(x, y) == RAdd(x, RNeg(y))

RMul(x, y) ==
    IF isNaN(x) \/ isNaN(y) THEN NaN
    ELSE Rat(x[1] * y[1], x[2] * y[2])

RDiv(x, y) ==
    IF isNaN(x) \/ isNaN(y) THEN NaN
    ELSE Rat(x[1] * y[2], x[2] * y[1])

RSq(x) == RMul(x, x)

\* Comparisons with NaN are false, as in JavaScript.
RLt(x, y) == ~isNaN(x) /\ ~isNaN(y) /\ x[1] * y[2] < y[1] * x[2]

RLe(x, y) == ~isNaN(x) /\ ~isNaN(y) /\ x[1] * y[2] <= y[1] * x[2]

RSign(x) == IF x[1] > 0 THEN 1 ELSE IF x[1] < 0 THEN -1 ELSE 0

RAbs(x) == <<Abs(x[1]), x[2]>>

\* Math.min / Math.max of two numbers
MathMin(x, y) == IF isNaN(x) \/ isNaN(y) THEN NaN ELSE IF RLe(x, y) THEN x ELSE y

MathMax(x, y) == IF isNaN(x) \/ isNaN(y) THEN NaN ELSE IF RLe(x, y) THEN y ELSE x

\* Math.round: the nearest integer, a half rounded towards +infinity,
\* i.e. floor(x + 1/2).  The result is an integer, not a pair.
MathRound(x) == (2 * x[1] + x[2]) \div (2 * x[2])

\* xs.reduce((a, b) => a + b, 0)
RECURSIVE Sum(_)
Sum(xs) == IF xs = <<>> THEN I(0) ELSE RAdd(Sum(SubSeq(xs, 1, Len(xs) - 1)), xs[Len(xs)])

\* The sequences over vals of length at most n
SeqsUpTo(vals, n) == UNION {[1..k -> vals] : k \in 0..n}

\* ------------------------------------------------------------------------
\* Square roots: surds <<r, c, q>> = r + c * sqrt(q)
\* ------------------------------------------------------------------------

\* The largest s with s * s dividing m (m >= 1), searched from k upwards.
RECURSIVE SqPart(_, _)
SqPart(m, k) ==
    IF k * k > m THEN 1
    ELSE IF m % (k * k) = 0 THEN k * SqPart(m \div (k * k), k)
    ELSE SqPart(m, k + 1)

SZero == <<I(0), I(0), 1>>

S(x) == <<x, I(0), 1>>

SNorm(r, c, q) == IF c[1] = 0 \/ q = 1 THEN <<RAdd(r, c), I(0), 1>> ELSE <<r, c, q>>

\* Math.sqrt of a rational x >= 0, exactly: sqrt(p/d) = sp/(sd*fd) * sqrt(fp*fd)
\* where p = sp^2 * fp and d = sd^2 * fd with fp, fd square-free.
MathSqrt(x) ==
    IF x[1] = 0 THEN SZero
    ELSE LET sp == SqPart(x[1], 2)
             sd == SqPart(x[2], 2)
             fp == x[1] \div (sp * sp)
             fd == x[2] \div (sd * sd)
         IN  IF fp * fd = 1 THEN S(Rat(sp, sd))
             ELSE <<I(0), Rat(sp, sd * fd), fp * fd>>

SIsZero(s) == s[1][1] = 0 /\ s[2][1] = 0

SNeg(s) == <<RNeg(s[1]), RNeg(s[2]), s[3]>>

\* k * s for a rational k
SScale(k, s) ==
    LET c == RMul(k, s[2])
    IN  IF c[1] = 0 THEN S(RMul(k, s[1])) ELSE <<RMul(k, s[1]), c, s[3]>>

\* a + b, for a and b over the same radicand (or either of them rational)
SAdd(a, b) ==
    LET c == RAdd(a[2], b[2])
        q == IF a[3] = 1 THEN b[3] ELSE a[3]
    IN  IF c[1] = 0 THEN S(RAdd(a[1], b[1])) ELSE <<RAdd(a[1], b[1]), c, q>>

SSub(a, b) == SAdd(a, SNeg(b))

\* x / s for a rational x and a surd s that is rational or a pure radical
\* (every divisor of the engine is a standard deviation, hence one of the two).
RDivS(x, s) ==
    IF s[2][1] = 0 THEN S(RDiv(x, s[1]))
    ELSE SNorm(I(0), RDiv(x, RMul(s[2], I(s[3]))), s[3])

\* The sign of r + c * sqrt(q): by the signs of r and c, and by comparing
\* r^2 with c^2 * q when they differ.
SSign(s) ==
    LET sr == RSign(s[1])
        sc == RSign(s[2])
    IN  IF sc = 0 THEN sr
        ELSE IF sr = 0 \/ sr = sc THEN sc
        ELSE LET r2 == RSq(s[1])
                 c2q == RMul(RSq(s[2]), I(s[3]))
             IN  IF RLt(c2q, r2) THEN sr ELSE IF RLt(r2, c2q) THEN sc ELSE 0

SLt(a, b) == SSign(SSub(a, b)) < 0

SLe(a, b) == SSign(SSub(a, b)) <= 0

\* Math.abs
SAbs(s) == IF SSign(s) < 0 THEN SNeg(s) ELSE s

\* ------------------------------------------------------------------------
\* UTILITY FUNCTIONS
\* ------------------------------------------------------------------------

mean(values) ==
    IF Len(values) = 0 THEN I(0)
    ELSE RDiv(Sum(values), I(Len(values)))

\* values.reduce((sum, v) => sum + (v - mu) ** 2, 0)
RECURSIVE SumSqDev(_, _)
SumSqDev(values, mu) ==
    IF values = <<>> THEN I(0)
    ELSE RAdd(SumSqDev(SubSeq(values, 1, Len(values) - 1), mu),
              RSq(RSub(values[Len(values)], mu)))

\* stdDev without the square root (the variance)
stdDev_variance(values) ==
    IF Len(values) < 2 THEN SZero
    ELSE LET mu == mean(values)
         IN  S(RDiv(SumSqDev(values, mu), I(Len(values))))

stdDev(values) ==
    IF Len(values) < 2 THEN SZero
    ELSE LET mu == mean(values)
         IN  MathSqrt(RDiv(SumSqDev(values, mu), I(Len(values))))

\* ------------------------------------------------------------------------
\* 11. COEFFICIENT OF VARIATION and 7. PEARSON CORRELATION COEFFICIENT
\* ------------------------------------------------------------------------

coefficientOfVariation_unguarded(values) ==
    SScale(RDiv(I(1), mean(values)), stdDev(values))

coefficientOfVariation(values) ==
    LET mu == mean(values)
    IN  IF mu = I(0) THEN SZero
        ELSE SScale(RDiv(I(1), mu), stdDev(values))

\* num after the loop has run over the first k pairs
RECURSIVE SumProdDev(_, _, _, _, _)
SumProdDev(as, aMean, bs, bMean, k) ==
    IF k = 0 THEN I(0)
    ELSE RAdd(SumProdDev(as, aMean, bs, bMean, k - 1),
              RMul(RSub(as[k], aMean), RSub(bs[k], bMean)))

pearsonCorrelation_fullMean(as, bs) ==
    LET n == IF Len(as) <= Len(bs) THEN Len(as) ELSE Len(bs)
    IN  IF n < 2 THEN SZero
        ELSE LET xMean == mean(as)
                 yMean == mean(bs)
                 num == SumProdDev(as, xMean, bs, yMean, n)
                 dx2 == SumSqDev(SubSeq(as, 1, n), xMean)
                 dy2 == SumSqDev(SubSeq(bs, 1, n), yMean)
             IN  IF dx2 = I(0) \/ dy2 = I(0) THEN SZero
                 ELSE RDivS(num, MathSqrt(RMul(dx2, dy2)))

pearsonCorrelation(as, bs) ==
    LET n == IF Len(as) <= Len(bs) THEN Len(as) ELSE Len(bs)
    IN  IF n < 2 THEN SZero
        ELSE LET xMean == mean(SubSeq(as, 1, n))
                 yMean == mean(SubSeq(bs, 1, n))
                 num == SumProdDev(as, xMean, bs, yMean, n)
                 dx2 == SumSqDev(SubSeq(as, 1, n), xMean)
                 dy2 == SumSqDev(SubSeq(bs, 1, n), yMean)
             IN  IF dx2 = I(0) \/ dy2 = I(0) THEN SZero
                 ELSE RDivS(num, MathSqrt(RMul(dx2, dy2)))

\* Longest series of the descriptive specification, and longest argument of
\* pearsonCorrelation
MaxDescLen == 4

MaxCorrLen == 3

DescValues == {I(-1), I(0), I(1), I(3)}

CorrValues == {I(-1), I(0), I(2)}

InitDescriptive ==
    /\ call \in [fn : {"mean", "stdDev", "coefficientOfVariation"},
                 values : SeqsUpTo(DescValues, MaxDescLen)]
            \cup [fn : {"pearsonCorrelation"},
                  xs : SeqsUpTo(CorrValues, MaxCorrLen),
                  ys : SeqsUpTo(CorrValues, MaxCorrLen)]
    /\ ret = NoRet
    /\ pc = "ready"
    /\ NoApp

CallMean ==
    /\ pc = "ready"
    /\ call.fn = "mean"
    /\ ret' = mean(call.values)
    /\ pc' = "done"
    /\ UNCHANGED <<call, app>>

CallStdDev ==
    /\ pc = "ready"
    /\ call.fn = "stdDev"
    /\ ret' = stdDev(call.values)
    /\ pc' = "done"
    /\ UNCHANGED <<call, app>>

CallCoefficientOfVariation ==
    /\ pc = "ready"
    /\ call.fn = "coefficientOfVariation"
    /\ ret' = coefficientOfVariation(call.values)
    /\ pc' = "done"
    /\ UNCHANGED <<call, app>>

CallPearsonCorrelation ==
    /\ pc = "ready"
    /\ call.fn = "pearsonCorrelation"
    /\ ret' = pearsonCorrelation(call.xs, call.ys)
    /\ pc' = "done"
    /\ UNCHANGED <<call, app>>

NextDescriptive ==
    \/ CallMean
    \/ CallStdDev
    \/ CallCoefficientOfVariation
    \/ CallPearsonCorrelation

SpecDescriptive == InitDescriptive /\ [][NextDescriptive]_vars

\* ------------------------------------------------------------------------
\* 1. LINEAR REGRESSION (Ordinary Least Squares)
\* ------------------------------------------------------------------------

FirstOrZero_zero(values) == I(0)

\* values[0] || 0 : a missing first element, 0 and NaN all give 0
FirstOrZero(values) ==
    IF Len(values) = 0 \/ isNaN(values[1]) THEN I(0) ELSE values[1]

\* xs = values.map((_, i) => i): the index of the 1-based position i
xsAt_oneBased(i) == I(i)

xsAt(i) == I(i - 1)

RECURSIVE SumXs(_)
SumXs(n) == IF n = 0 THEN I(0) ELSE RAdd(SumXs(n - 1), xsAt(n))

\* The three sums of the loop over i = 0 .. n-1, over the first k positions
RECURSIVE Ssxy(_, _, _, _)
Ssxy(values, xMean, yMean, k) ==
    IF k = 0 THEN I(0)
    ELSE RAdd(Ssxy(values, xMean, yMean, k - 1),
              RMul(RSub(xsAt(k), xMean), RSub(values[k], yMean)))

RECURSIVE Ssxx(_, _)
Ssxx(xMean, k) ==
    IF k = 0 THEN I(0)
    ELSE RAdd(Ssxx(xMean, k - 1), RSq(RSub(xsAt(k), xMean)))

RECURSIVE Ssyy(_, _, _)
Ssyy(values, yMean, k) ==
    IF k = 0 THEN I(0)
    ELSE RAdd(Ssyy(values, yMean, k - 1), RSq(RSub(values[k], yMean)))

rSquared_unguarded(ssxy, ssxx, ssyy) == RDiv(RSq(ssxy), RMul(ssxx, ssyy))

\* r_squared = ssyy === 0 ? 0 : (ssxy ** 2) / (ssxx * ssyy)
rSquared(ssxy, ssxx, ssyy) ==
    IF ssyy = I(0) THEN I(0) ELSE RDiv(RSq(ssxy), RMul(ssxx, ssyy))

\* The returned predict is a closure: () => values[0] || 0 for n < 2, and
\* (x) => slope * x + intercept otherwise.  It is modelled by what it
\* captures, and applied by predict.
linearRegression(values) ==
    LET n == Len(values)
    IN  IF n < 2
        THEN [slope |-> I(0), intercept |-> FirstOrZero(values),
              predict |-> [kind |-> "constant", value |-> FirstOrZero(values)],
              r_squared |-> I(0)]
        ELSE LET xMean == RDiv(SumXs(n), I(n))
                 yMean == RDiv(Sum(values), I(n))
                 ssxy  == Ssxy(values, xMean, yMean, n)
                 ssxx  == Ssxx(xMean, n)
                 ssyy  == Ssyy(values, yMean, n)
                 slope == IF ssxx = I(0) THEN I(0) ELSE RDiv(ssxy, ssxx)
                 intercept == RSub(yMean, RMul(slope, xMean))
             IN  [slope |-> slope, intercept |-> intercept,
                  predict |-> [kind |-> "linear", slope |-> slope,
                               intercept |-> intercept],
                  r_squared |-> rSquared(ssxy, ssxx, ssyy)]

\* reg.predict(x)
predict(reg, x) ==
    IF reg.predict.kind = "constant" THEN reg.predict.value
    ELSE RAdd(RMul(reg.predict.slope, x), reg.predict.intercept)

\* Longest series of the regression specification
MaxRegLen == 5

\* Largest index at which the claims evaluate predict
MaxX == 8

RegValues == {I(0), I(1), I(2), I(3), I(4), Rat(1, 2)}

InitRegression ==
    /\ call \in {[fn |-> "linearRegression", values |-> vs] :
                    vs \in SeqsUpTo(RegValues, MaxRegLen)}
    /\ ret = NoRet
    /\ pc = "ready"
    /\ NoApp

CallLinearRegression ==
    /\ pc = "ready"
    /\ call.fn = "linearRegression"
    /\ ret' = linearRegression(call.values)
    /\ pc' = "done"
    /\ UNCHANGED <<call, app>>

NextRegression == CallLinearRegression

SpecRegression == InitRegression /\ [][NextRegression]_vars

\* ------------------------------------------------------------------------
\* 2-4. MOVING AVERAGES
\* ------------------------------------------------------------------------

\* Position p below is 1-based: p = i + 1 for the source's index i, so
\* "i < window - 1" reads "p < window" and values.slice(i - window + 1, i + 1)
\* is SubSeq(values, p - window + 1, p).
movingAverage_zeroFill(values, window) ==
    [p \in 1..Len(values) |->
        IF p < window THEN I(0)
        ELSE RDiv(Sum(SubSeq(values, p - window + 1, p)), I(window))]

movingAverage(values, window) ==
    [p \in 1..Len(values) |->
        IF p < window THEN NaN
        ELSE RDiv(Sum(SubSeq(values, p - window + 1, p)), I(window))]

emaStep_swapped(alpha, value, previous) ==
    RAdd(RMul(alpha, previous), RMul(RSub(I(1), alpha), value))

\* alpha * values[i] + (1 - alpha) * result[i - 1]
emaStep(alpha, value, previous) ==
    RAdd(RMul(alpha, value), RMul(RSub(I(1), alpha), previous))

RECURSIVE exponentialMovingAverage(_, _)
exponentialMovingAverage(values, alpha) ==
    IF Len(values) = 0 THEN <<>>
    ELSE IF Len(values) = 1 THEN <<values[1]>>
    ELSE LET result == exponentialMovingAverage(SubSeq(values, 1, Len(values) - 1), alpha)
         IN  Append(result, emaStep(alpha, values[Len(values)], result[Len(result)]))

\* slice.reduce((sum, val, j) => sum + val * weights[j], 0), weights[j] = j + 1
\* the weights taken as j instead of j + 1
RECURSIVE WeightedSum_zeroBased(_)
WeightedSum_zeroBased(slice) ==
    IF slice = <<>> THEN I(0)
    ELSE RAdd(WeightedSum_zeroBased(SubSeq(slice, 1, Len(slice) - 1)),
              RMul(slice[Len(slice)], I(Len(slice) - 1)))

RECURSIVE WeightedSum(_)
WeightedSum(slice) ==
    IF slice = <<>> THEN I(0)
    ELSE RAdd(WeightedSum(SubSeq(slice, 1, Len(slice) - 1)),
              RMul(slice[Len(slice)], I(Len(slice))))

weightedMovingAverage(values, window) ==
    LET weightSum == Sum([j \in 1..window |-> I(j)])
    IN  [p \in 1..Len(values) |->
            IF p < window THEN NaN
            ELSE RDiv(WeightedSum(SubSeq(values, p - window + 1, p)), weightSum)]

\* vs.filter(v => !isNaN(v))
definedOnly(vs) == SelectSeq(vs, LAMBDA v : ~isNaN(v))

LastOrZero_noDefault(vs) ==
    IF Len(vs) = 0 THEN NaN ELSE vs[Len(vs)]

\* vs.at(-1) || 0 : the last element, 0 when there is none or it is 0 / NaN
LastOrZero(vs) ==
    IF Len(vs) = 0 \/ isNaN(vs[Len(vs)]) THEN I(0) ELSE vs[Len(vs)]

\* Longest series and widest window of the smoothing specification (the
\* window may exceed the series)
MaxSmoothLen == 4

MaxSmoothWindow == 5

SmoothValues == {I(0), I(3), Rat(5, 2)}

\* The configured default 0.3, and two other smoothing factors in (0, 1)
SmoothAlphas == {Rat(3, 10), Rat(1, 2), Rat(9, 10)}

InitSmoothing ==
    /\ call \in [fn : {"movingAverage", "weightedMovingAverage"},
                 values : SeqsUpTo(SmoothValues, MaxSmoothLen),
                 window : 1..MaxSmoothWindow]
            \cup [fn : {"exponentialMovingAverage"},
                  values : SeqsUpTo(SmoothValues, MaxSmoothLen),
                  alpha : SmoothAlphas]
    /\ ret = NoRet
    /\ pc = "ready"
    /\ NoApp

CallMovingAverage ==
    /\ pc = "ready"
    /\ call.fn = "movingAverage"
    /\ ret' = movingAverage(call.values, call.window)
    /\ pc' = "done"
    /\ UNCHANGED <<call, app>>

CallExponentialMovingAverage ==
    /\ pc = "ready"
    /\ call.fn = "exponentialMovingAverage"
    /\ ret' = exponentialMovingAverage(call.values, call.alpha)
    /\ pc' = "done"
    /\ UNCHANGED <<call, app>>

CallWeightedMovingAverage ==
    /\ pc = "ready"
    /\ call.fn = "weightedMovingAverage"
    /\ ret' = weightedMovingAverage(call.values, call.window)
    /\ pc' = "done"
    /\ UNCHANGED <<call, app>>

NextSmoothing ==
    \/ CallMovingAverage
    \/ CallExponentialMovingAverage
    \/ CallWeightedMovingAverage

SpecSmoothing == InitSmoothing /\ [][NextSmoothing]_vars

\* ------------------------------------------------------------------------
\* 14. SENSITIVITY SIMULATION
\* ------------------------------------------------------------------------

scenarios_reordered ==
    << [label |-> "Base", priceD |-> I(0), qtyD |-> I(0)],
       [label |-> "+5% Price", priceD |-> Rat(5, 100), qtyD |-> I(0)],
       [label |-> "+10% Qty", priceD |-> I(0), qtyD |-> Rat(10, 100)],
       [label |-> "-5% Price", priceD |-> Rat(-5, 100), qtyD |-> I(0)],
       [label |-> "-10% Qty", priceD |-> I(0), qtyD |-> Rat(-10, 100)],
       [label |-> "+5% Price, +10% Qty", priceD |-> Rat(5, 100), qtyD |-> Rat(10, 100)],
       [label |-> "-5% Price, -10% Qty", priceD |-> Rat(-5, 100), qtyD |-> Rat(-10, 100)] >>

scenarios ==
    << [label |-> "Base", priceD |-> I(0), qtyD |-> I(0)],
       [label |-> "+5% Price", priceD |-> Rat(5, 100), qtyD |-> I(0)],
       [label |-> "-5% Price", priceD |-> Rat(-5, 100), qtyD |-> I(0)],
       [label |-> "+10% Qty", priceD |-> I(0), qtyD |-> Rat(10, 100)],
       [label |-> "-10% Qty", priceD |-> I(0), qtyD |-> Rat(-10, 100)],
       [label |-> "+5% Price, +10% Qty", priceD |-> Rat(5, 100), qtyD |-> Rat(10, 100)],
       [label |-> "-5% Price, -10% Qty", priceD |-> Rat(-5, 100), qtyD |-> Rat(-10, 100)] >>

sensitivitySimulation_usesBaseRevenue(baseRevenue, baseQuantity, basePrice, totalCost) ==
    [k \in 1..Len(scenarios) |->
        LET s == scenarios[k]
            rev == RMul(baseRevenue,
                        RMul(RAdd(I(1), s.priceD), RAdd(I(1), s.qtyD)))
        IN  [scenario |-> s.label,
             price_change |-> RMul(s.priceD, I(100)),
             quantity_change |-> RMul(s.qtyD, I(100)),
             estimated_revenue |-> rev,
             estimated_profit |-> RSub(rev, totalCost)]]

sensitivitySimulation(baseRevenue, baseQuantity, basePrice, totalCost) ==
    [k \in 1..Len(scenarios) |->
        LET s == scenarios[k]
            newPrice == RMul(basePrice, RAdd(I(1), s.priceD))
            newQty == RMul(baseQuantity, RAdd(I(1), s.qtyD))
            rev == RMul(newPrice, newQty)
        IN  [scenario |-> s.label,
             price_change |-> RMul(s.priceD, I(100)),
             quantity_change |-> RMul(s.qtyD, I(100)),
             estimated_revenue |-> rev,
             estimated_profit |-> RSub(rev, totalCost)]]

\* Largest base quantity of the sensitivity specification
MaxQuantity == 3

SensPrices == {I(0), Rat(6, 5), Rat(3, 2), I(2), Rat(5, 2)}

SensAmounts == {I(0), I(3), Rat(21, 2)}

InitSensitivity ==
    /\ call \in [fn : {"sensitivitySimulation"},
                 baseRevenue : SensAmounts,
                 baseQuantity : {I(q) : q \in 0..MaxQuantity},
                 basePrice : SensPrices,
                 totalCost : SensAmounts]
    /\ ret = NoRet
    /\ pc = "ready"
    /\ NoApp

CallSensitivitySimulation ==
    /\ pc = "ready"
    /\ call.fn = "sensitivitySimulation"
    /\ ret' = sensitivitySimulation(call.baseRevenue, call.baseQuantity,
                                    call.basePrice, call.totalCost)
    /\ pc' = "done"
    /\ UNCHANGED <<call, app>>

NextSensitivity == CallSensitivitySimulation

SpecSensitivity == InitSensitivity /\ [][NextSensitivity]_vars

\* ------------------------------------------------------------------------
\* Z-SCORE (Standardization) and Z-SCORE ANOMALY DETECTION
\* ------------------------------------------------------------------------

zScore(values) ==
    LET mu == mean(values)
        sigma == stdDev(values)
    IN  IF SIsZero(sigma) THEN [i \in 1..Len(values) |-> SZero]
        ELSE [i \in 1..Len(values) |-> RDivS(RSub(values[i], mu), sigma)]

detectAnomalies_nonStrict(dates, revenues, threshold) ==
    LET scores == zScore(revenues)
    IN  [i \in 1..Len(dates) |->
            [date |-> dates[i],
             revenue |-> revenues[i],
             zscore |-> scores[i],
             is_anomaly |-> SLe(S(threshold), SAbs(scores[i]))]]

\* dates and revenues have the same length: every caller builds both from
\* the same daily map.
detectAnomalies(dates, revenues, threshold) ==
    LET scores == zScore(revenues)
    IN  [i \in 1..Len(dates) |->
            [date |-> dates[i],
             revenue |-> revenues[i],
             zscore |-> scores[i],
             is_anomaly |-> SLt(S(threshold), SAbs(scores[i]))]]

\* A calendar date is modelled by its day number, counted from a Sunday:
\* new Date(date).getDay() is the day number modulo 7, and the ISO strings
\* of the daily series sort as their day numbers do.
getDay(date) == date % 7

\* The default threshold of detectAnomalies
DefaultThreshold == 2

\* Longest revenue series of the anomaly specification
MaxAnomLen == 7

AnomRevenues == {I(0), I(1), I(3)}

Thresholds == {I(0), I(1), I(DefaultThreshold), Rat(5, 2)}

InitAnomaly ==
    /\ call \in {[fn |-> "detectAnomalies",
                  dates |-> [i \in 1..Len(rs) |-> i],
                  revenues |-> rs,
                  threshold |-> t] : rs \in SeqsUpTo(AnomRevenues, MaxAnomLen),
                                     t \in Thresholds}
    /\ ret = NoRet
    /\ pc = "ready"
    /\ NoApp

CallDetectAnomalies ==
    /\ pc = "ready"
    /\ call.fn = "detectAnomalies"
    /\ ret' = detectAnomalies(call.dates, call.revenues, call.threshold)
    /\ pc' = "done"
    /\ UNCHANGED <<call, app>>

NextAnomaly == CallDetectAnomalies

SpecAnomaly == InitAnomaly /\ [][NextAnomaly]_vars

\* ------------------------------------------------------------------------
\* ADDITIVE DECOMPOSITION: R(t) = T(t) + S(t) + E(t)
\* ------------------------------------------------------------------------

\* weekdayTotals[dow] after the loop has run over the first k positions
RECURSIVE weekdayTotal(_, _, _, _, _)
weekdayTotal(dates, revenues, trends, dow, k) ==
    IF k = 0 THEN I(0)
    ELSE LET rest == weekdayTotal(dates, revenues, trends, dow, k - 1)
         IN  IF getDay(dates[k]) = dow
             THEN RAdd(rest, RSub(revenues[k], trends[k]))
             ELSE rest

\* weekdayCounts[dow] after the loop over the n positions
weekdayCount(dates, n, dow) == Cardinality({i \in 1..n : getDay(dates[i]) = dow})

seasonalAdj_observedOnly(dates, revenues, trends) ==
    LET n == Len(revenues)
        weekdayAvg == [d \in 1..7 |->
                         IF weekdayCount(dates, n, d - 1) > 0
                         THEN RDiv(weekdayTotal(dates, revenues, trends, d - 1, n),
                                   I(weekdayCount(dates, n, d - 1)))
                         ELSE I(0)]
        observed == {d \in 1..7 : weekdayCount(dates, n, d - 1) > 0}
        avgSeasonal == IF observed = {} THEN I(0)
                       ELSE RDiv(Sum(weekdayAvg), I(Cardinality(observed)))
    IN  [d \in 1..7 |-> RSub(weekdayAvg[d], avgSeasonal)]

\* seasonalAdj, indexed by dow + 1
seasonalAdj(dates, revenues, trends) ==
    LET n == Len(revenues)
        weekdayAvg == [d \in 1..7 |->
                         IF weekdayCount(dates, n, d - 1) > 0
                         THEN RDiv(weekdayTotal(dates, revenues, trends, d - 1, n),
                                   I(weekdayCount(dates, n, d - 1)))
                         ELSE I(0)]
        avgSeasonal == mean(weekdayAvg)
    IN  [d \in 1..7 |-> RSub(weekdayAvg[d], avgSeasonal)]

decompositionPoint_noSeasonal(date, revenue, trend, seasonal) ==
    [date |-> date, revenue |-> revenue, trend |-> trend, seasonal |-> seasonal,
     residual |-> RSub(revenue, trend)]

\* { date, revenue, trend, seasonal, residual: revenue - trend - seasonal }
decompositionPoint(date, revenue, trend, seasonal) ==
    [date |-> date, revenue |-> revenue, trend |-> trend, seasonal |-> seasonal,
     residual |-> RSub(RSub(revenue, trend), seasonal)]

additiveDecomposition(dates, revenues) ==
    LET reg == linearRegression(revenues)
        trends == [i \in 1..Len(revenues) |-> predict(reg, I(i - 1))]
        adj == seasonalAdj(dates, revenues, trends)
    IN  [i \in 1..Len(dates) |->
            decompositionPoint(dates[i], revenues[i], trends[i],
                               adj[getDay(dates[i]) + 1])]

\* Longest series of the decomposition specification
MaxDecompLen == 4

DecompRevenues == {I(0), I(1), I(3)}

\* Day number of the first observation (a Friday), and the distances between
\* two consecutive observations (days without sales are absent from the
\* series).
StartDays == {5}

DayGaps == {1, 2, 7}

RECURSIVE DatesFrom(_, _)
DatesFrom(start, gaps) ==
    IF gaps = <<>> THEN <<start>>
    ELSE <<start>> \o DatesFrom(start + Head(gaps), Tail(gaps))

DateSeqs(n) ==
    IF n = 0 THEN {<<>>}
    ELSE {DatesFrom(s, g) : s \in StartDays, g \in [1..(n - 1) -> DayGaps]}

InitDecomposition ==
    /\ call \in {[fn |-> "additiveDecomposition", dates |-> ds, revenues |-> rs] :
                    rs \in SeqsUpTo(DecompRevenues, MaxDecompLen),
                    ds \in UNION {DateSeqs(n) : n \in 0..MaxDecompLen}}
    /\ Len(call.dates) = Len(call.revenues)
    /\ ret = NoRet
    /\ pc = "ready"
    /\ NoApp

CallAdditiveDecomposition ==
    /\ pc = "ready"
    /\ call.fn = "additiveDecomposition"
    /\ ret' = additiveDecomposition(call.dates, call.revenues)
    /\ pc' = "done"
    /\ UNCHANGED <<call, app>>

NextDecomposition == CallAdditiveDecomposition

SpecDecomposition == InitDecomposition /\ [][NextDecomposition]_vars

\* ------------------------------------------------------------------------
\* STRUCTURAL BREAK DETECTION
\* ------------------------------------------------------------------------

isBreak_nonStrict(left, right, sensitivity, sigma) ==
    SLe(SScale(sensitivity, sigma), S(RAbs(RSub(mean(left), mean(right)))))

\* Math.abs(mean(left) - mean(right)) > sensitivity * sigma
isBreak(left, right, sensitivity, sigma) ==
    SLt(SScale(sensitivity, sigma), S(RAbs(RSub(mean(left), mean(right)))))

\* The loop runs over the indices i = 5 .. values.length - 6; the result
\* holds the source's 0-based indices.  values.slice(a, b) is
\* SubSeq(values, a + 1, b).
detectStructuralBreaks(values, sensitivity) ==
    LET n == Len(values)
        sigma == stdDev(values)
        left(i) == SubSeq(values, (IF i - 5 > 0 THEN i - 5 ELSE 0) + 1, i)
        right(i) == SubSeq(values, i + 1, IF i + 5 < n THEN i + 5 ELSE n)
    IN  SelectSeq([k \in 1..(n - 10) |-> k + 4],
                  LAMBDA i : isBreak(left(i), right(i), sensitivity, sigma))

\* Longest series of the break specification
MaxBreakLen == 12

BreakValues == {I(0), I(1)}

\* The default sensitivity 1.5, and another one
Sensitivities == {Rat(3, 2), I(2)}

InitBreaks ==
    /\ call \in [fn : {"detectStructuralBreaks"},
                 values : SeqsUpTo(BreakValues, MaxBreakLen),
                 sensitivity : Sensitivities]
    /\ ret = NoRet
    /\ pc = "ready"
    /\ NoApp

CallDetectStructuralBreaks ==
    /\ pc = "ready"
    /\ call.fn = "detectStructuralBreaks"
    /\ ret' = detectStructuralBreaks(call.values, call.sensitivity)
    /\ pc' = "done"
    /\ UNCHANGED <<call, app>>

NextBreaks == CallDetectStructuralBreaks

SpecBreaks == InitBreaks /\ [][NextBreaks]_vars

\* ------------------------------------------------------------------------
\* IEEE-754 binary64, the arithmetic of the type `number`
\* ------------------------------------------------------------------------
\* Where a claim depends on the rounding of the arithmetic, the function is
\* computed on doubles.  A double is <<sign, significand, exponent>> and
\* stands for sign * significand * 2^exponent; the significand is a natural
\* number of exactly Precision bits, held as a sequence of limbs of
\* LimbBits bits, least significant first; 0 is <<0, <<>>, 0>>.  Every
\* operation rounds its exact result to the nearest double, ties to the
\* even significand.  Infinities, NaN, subnormal numbers and the sign of
\* zero are not represented: the operations are applied to finite non-zero
\* divisors and to values far from the ends of the exponent range.

Precision == 53

LimbBits == 15

LimbBase == 32768

\* The number of bits of the limb k
BitLen(k) ==
    IF k = 0 THEN 0 ELSE CHOOSE b \in 1..LimbBits : (k \div (2^(b - 1))) = 1

SetMax(indices) == CHOOSE i \in indices : \A j \in indices : j <= i

\* ---- natural numbers of any size ---------------------------------------

\* u without its leading zero limbs
BigTrim(u) ==
    LET nonzero == {i \in 1..Len(u) : u[i] # 0}
    IN  IF nonzero = {} THEN <<>> ELSE SubSeq(u, 1, SetMax(nonzero))

RECURSIVE BigOfInt(_)
BigOfInt(k) ==
    IF k = 0 THEN <<>> ELSE <<k % LimbBase>> \o BigOfInt(k \div LimbBase)

Limb(u, i) == IF i \in DOMAIN u THEN u[i] ELSE 0

ZeroLimbs(n) == [i \in 1..n |-> 0]

\* The carry into column i of the columns s, each at most 2 * LimbBase - 2:
\* the nearest column below i that is not full overflows
CarryInto(s, i) ==
    LET open == {j \in 1..(i - 1) : Limb(s, j) # LimbBase - 1}
    IN  open # {} /\ Limb(s, SetMax(open)) >= LimbBase

\* The number whose columns are s, each at most 2 * LimbBase - 2
BigNormal(s) ==
    BigTrim([i \in 1..(Len(s) + 1) |->
                (Limb(s, i) + (IF CarryInto(s, i) THEN 1 ELSE 0)) % LimbBase])

BigAdd(u, v) ==
    BigNormal([i \in 1..(IF Len(u) >= Len(v) THEN Len(u) ELSE Len(v)) |->
                  Limb(u, i) + Limb(v, i)])

\* The borrow from column i of the column differences s: the nearest
\* column below i that is not 0 is negative
BorrowFrom(s, i) ==
    LET open == {j \in 1..(i - 1) : s[j] # 0}
    IN  open # {} /\ s[SetMax(open)] < 0

\* u - v for u >= v
BigSub(u, v) ==
    LET s == [i \in 1..Len(u) |-> u[i] - Limb(v, i)]
    IN  BigTrim([i \in 1..Len(u) |->
                    (s[i] - (IF BorrowFrom(s, i) THEN 1 ELSE 0) + LimbBase) % LimbBase])

\* -1, 0 or 1 as u is below, equal to or above v
BigCmp(u, v) ==
    IF Len(u) # Len(v) THEN (IF Len(u) < Len(v) THEN -1 ELSE 1)
    ELSE LET differ == {i \in 1..Len(u) : u[i] # v[i]}
         IN  IF differ = {} THEN 0
             ELSE IF u[SetMax(differ)] < v[SetMax(differ)] THEN -1 ELSE 1

\* u * k for a limb k
BigMulSmall(u, k) ==
    BigNormal([i \in 1..(Len(u) + 1) |->
                  ((Limb(u, i) * k) % LimbBase) + ((Limb(u, i - 1) * k) \div LimbBase)])

\* Column c of u * v: the low halves of the limb products of weight c plus
\* the high halves of those of weight c - 1, over the limbs i .. Len(u) of u
RECURSIVE BigColumn(_, _, _, _)
BigColumn(u, v, c, i) ==
    IF i > Len(u) THEN 0
    ELSE ((u[i] * Limb(v, c + 1 - i)) % LimbBase)
             + ((u[i] * Limb(v, c - i)) \div LimbBase)
             + BigColumn(u, v, c, i + 1)

BigMul(u, v) ==
    LET columns == [c \in 1..(Len(u) + Len(v)) |-> BigColumn(u, v, c, 1)]
    IN  BigNormal([c \in 1..(Len(u) + Len(v) + 1) |->
                      (Limb(columns, c) % LimbBase) + (Limb(columns, c - 1) \div LimbBase)])

\* u * 2^s
BigShl(u, s) ==
    IF u = <<>> THEN <<>>
    ELSE ZeroLimbs(s \div LimbBits) \o BigMulSmall(u, 2^(s % LimbBits))

\* u div 2^s
BigShr(u, s) ==
    LET q == s \div LimbBits
        r == s % LimbBits
        w == IF q >= Len(u) THEN <<>> ELSE SubSeq(u, q + 1, Len(u))
    IN  BigTrim([i \in 1..Len(w) |->
                    (w[i] \div (2^r)) + ((Limb(w, i + 1) % (2^r)) * (2^(LimbBits - r)))])

\* u mod 2^s
BigLow(u, s) ==
    LET q == s \div LimbBits
        r == s % LimbBits
    IN  IF q >= Len(u) THEN u
        ELSE BigTrim(SubSeq(u, 1, q) \o <<u[q + 1] % (2^r)>>)

BigBitLen(u) ==
    IF u = <<>> THEN 0 ELSE LimbBits * (Len(u) - 1) + BitLen(u[Len(u)])

BigIsOdd(u) == u # <<>> /\ u[1] % 2 = 1

\* The largest limb d with d * v <= r, counting down from an estimate that
\* is not below it
RECURSIVE BigDigit(_, _, _)
BigDigit(r, v, d) ==
    IF BigCmp(BigMulSmall(v, d), r) <= 0 THEN d ELSE BigDigit(r, v, d - 1)

\* One step of the long division by v, whose top limb has LimbBits bits:
\* <<quotient, remainder>> after one more limb of the dividend is taken in
\* below those already divided, above being the <<quotient, remainder>> so
\* far.  The digit is estimated from the two top limbs of the running
\* remainder and the top limb of v.
BigDivLimb(above, limb, v) ==
    IF above[2] = <<>> /\ limb = 0 THEN <<BigTrim(<<0>> \o above[1]), <<>>>>
    ELSE LET r == <<limb>> \o above[2]
             top == Limb(r, Len(v) + 1) * LimbBase + Limb(r, Len(v))
             estimate == top \div v[Len(v)]
             d == BigDigit(r, v, IF estimate < LimbBase THEN estimate ELSE LimbBase - 1)
         IN  <<BigTrim(<<d>> \o above[1]), BigSub(r, BigMulSmall(v, d))>>

\* <<quotient, remainder>> of the number made of the limbs i .. Len(u) of u
\* by v: long division, one limb of u at a time from the top; the top
\* Len(v) - 1 limbs are below v and make the first remainder
RECURSIVE BigDivFrom(_, _, _)
BigDivFrom(u, v, i) ==
    IF i > Len(u) - Len(v) + 1 THEN << <<>>, BigTrim(SubSeq(u, i, Len(u))) >>
    ELSE BigDivLimb(BigDivFrom(u, v, i + 1), u[i], v)

\* <<quotient, remainder>> of u by v > 0; both are first scaled so that the
\* top limb of the divisor is full
BigDivMod(u, v) ==
    LET s == LimbBits - BitLen(v[Len(v)])
        qr == BigDivFrom(BigShl(u, s), BigShl(v, s), 1)
    IN  <<qr[1], BigShr(qr[2], s)>>

\* ---- doubles -----------------------------------------------------------

DblZero == <<0, <<>>, 0>>

\* The double nearest to sign * m * 2^e (+ a positive amount below one unit
\* of m when inexact), ties to even
DblRound(sign, m, e, inexact) ==
    IF m = <<>> THEN DblZero
    ELSE LET len == BigBitLen(m)
         IN  IF len <= Precision
             THEN <<sign, BigShl(m, Precision - len), e - (Precision - len)>>
             ELSE LET s == len - Precision
                      q == BigShr(m, s)
                      c == BigCmp(BigLow(m, s), BigShl(<<1>>, s - 1))
                      up == c > 0 \/ (c = 0 /\ (inexact \/ BigIsOdd(q)))
                      q1 == IF up THEN BigAdd(q, <<1>>) ELSE q
                  IN  IF BigBitLen(q1) > Precision
                      THEN <<sign, BigShr(q1, 1), e + s + 1>>
                      ELSE <<sign, q1, e + s>>

\* The integer k as a double
DblOfInt(k) ==
    IF k = 0 THEN DblZero
    ELSE DblRound(IF k < 0 THEN -1 ELSE 1, BigOfInt(IF k < 0 THEN -k ELSE k), 0, FALSE)

DblNeg(x) == <<-x[1], x[2], x[3]>>

\* x + y
DblAdd(x, y) ==
    IF x[1] = 0 THEN y
    ELSE IF y[1] = 0 THEN x
    ELSE LET e == IF x[3] <= y[3] THEN x[3] ELSE y[3]
             mx == BigShl(x[2], x[3] - e)
             my == BigShl(y[2], y[3] - e)
             c == BigCmp(mx, my)
         IN  IF x[1] = y[1] THEN DblRound(x[1], BigAdd(mx, my), e, FALSE)
             ELSE IF c = 0 THEN DblZero
             ELSE IF c > 0 THEN DblRound(x[1], BigSub(mx, my), e, FALSE)
             ELSE DblRound(y[1], BigSub(my, mx), e, FALSE)

\* x - y
DblSub(x, y) == DblAdd(x, DblNeg(y))

\* x * y
DblMul(x, y) ==
    IF x[1] = 0 \/ y[1] = 0 THEN DblZero
    ELSE DblRound(x[1] * y[1], BigMul(x[2], y[2]), x[3] + y[3], FALSE)

\* x / y for y # 0
DblDiv(x, y) ==
    IF x[1] = 0 \/ y[1] = 0 THEN DblZero
    ELSE LET qr == BigDivMod(BigShl(x[2], Precision + 3), y[2])
         IN  DblRound(x[1] * y[1], qr[1], x[3] - y[3] - (Precision + 3),
                      qr[2] # <<>>)

\* The decimal literal n/d, d > 0: the double nearest to the quotient
DblOf(n, d) == DblDiv(DblOfInt(n), DblOfInt(d))

\* ------------------------------------------------------------------------
\* 12. AUTOCORRELATION (ACF) at lag k, on doubles
\* ------------------------------------------------------------------------

\* values.reduce((a, b) => a + b, 0), from the left
RECURSIVE DblSum(_)
DblSum(values) ==
    IF values = <<>> THEN DblZero
    ELSE DblAdd(DblSum(SubSeq(values, 1, Len(values) - 1)), values[Len(values)])

\* mean, on doubles
mean64(values) ==
    IF Len(values) = 0 THEN DblZero
    ELSE DblDiv(DblSum(values), DblOfInt(Len(values)))

\* values.reduce((sum, v) => sum + (v - mu) ** 2, 0) over the first k values
RECURSIVE acfDenom(_, _, _)
acfDenom(values, mu, k) ==
    IF k = 0 THEN DblZero
    ELSE DblAdd(acfDenom(values, mu, k - 1),
                DblMul(DblSub(values[k], mu), DblSub(values[k], mu)))

\* num after the inner loop has run over i = lag .. k - 1 (positions
\* lag + 1 .. k)
RECURSIVE acfNum(_, _, _, _)
acfNum(values, mu, lag, k) ==
    IF k <= lag THEN DblZero
    ELSE DblAdd(acfNum(values, mu, lag, k - 1),
                DblMul(DblSub(values[k], mu), DblSub(values[k - lag], mu)))

\* denom === 0 ? 0 : num / denom
acfCorrelation(num, denom) ==
    IF denom = DblZero THEN DblZero ELSE DblDiv(num, denom)

autocorrelation(values, maxLag) ==
    LET mu == mean64(values)
        n == Len(values)
        denom == acfDenom(values, mu, n)
        last == IF maxLag <= n - 1 THEN maxLag ELSE n - 1
    IN  [lag \in 1..last |->
            [lag |-> lag,
             correlation |-> acfCorrelation(acfNum(values, mu, lag, n), denom)]]

\* Longest series and largest maxLag of the autocorrelation specification
MaxAcfLen == 3

MaxLag == 3

\* The doubles 0.1, 1, 2.5 and 3
AcfValues == {DblOf(1, 10), DblOfInt(1), DblOf(5, 2), DblOfInt(3)}

InitAutocorrelation ==
    /\ call \in [fn : {"autocorrelation"},
                 values : SeqsUpTo(AcfValues, MaxAcfLen),
                 maxLag : 0..MaxLag]
    /\ ret = NoRet
    /\ pc = "ready"
    /\ NoApp

CallAutocorrelation ==
    /\ pc = "ready"
    /\ call.fn = "autocorrelation"
    /\ ret' = autocorrelation(call.values, call.maxLag)
    /\ pc' = "done"
    /\ UNCHANGED <<call, app>>

NextAutocorrelation == CallAutocorrelation

SpecAutocorrelation == InitAutocorrelation /\ [][NextAutocorrelation]_vars

\* ------------------------------------------------------------------------
\* ERROR METRICS
\* ------------------------------------------------------------------------

\* The loop of errorMetrics over the first k positions: the running
\* maeSum, mseSum, mapeSum and mapeCount; a position whose forecast is NaN
\* is skipped
RECURSIVE errorSums(_, _, _)
errorSums(actual, forecast, k) ==
    IF k = 0 THEN [maeSum |-> I(0), mseSum |-> I(0), mapeSum |-> I(0), mapeCount |-> 0]
    ELSE LET before == errorSums(actual, forecast, k - 1)
             err == RSub(actual[k], forecast[k])
         IN  IF isNaN(forecast[k]) THEN before
             ELSE [maeSum |-> RAdd(before.maeSum, RAbs(err)),
                   mseSum |-> RAdd(before.mseSum, RMul(err, err)),
                   mapeSum |-> IF actual[k] # I(0)
                               THEN RAdd(before.mapeSum, RAbs(RDiv(err, actual[k])))
                               ELSE before.mapeSum,
                   mapeCount |-> IF actual[k] # I(0)
                                 THEN before.mapeCount + 1
                                 ELSE before.mapeCount]

errorMetrics_mapeOverAll(actual, forecast) ==
    LET n == IF Len(actual) <= Len(forecast) THEN Len(actual) ELSE Len(forecast)
        sums == errorSums(actual, forecast, n)
        mse == RDiv(sums.mseSum, I(n))
    IN  IF n = 0 THEN [mae |-> I(0), mse |-> I(0), rmse |-> SZero, mape |-> I(0)]
        ELSE [mae |-> RDiv(sums.maeSum, I(n)),
              mse |-> mse,
              rmse |-> MathSqrt(mse),
              mape |-> RMul(RDiv(sums.mapeSum, I(n)), I(100))]

errorMetrics(actual, forecast) ==
    LET n == IF Len(actual) <= Len(forecast) THEN Len(actual) ELSE Len(forecast)
        sums == errorSums(actual, forecast, n)
        mse == RDiv(sums.mseSum, I(n))
    IN  IF n = 0 THEN [mae |-> I(0), mse |-> I(0), rmse |-> SZero, mape |-> I(0)]
        ELSE [mae |-> RDiv(sums.maeSum, I(n)),
              mse |-> mse,
              rmse |-> MathSqrt(mse),
              mape |-> IF sums.mapeCount > 0
                       THEN RMul(RDiv(sums.mapeSum, I(sums.mapeCount)), I(100))
                       ELSE I(0)]

\* Longest series of the error-metrics specification
MaxErrLen == 3

ActualValues == {I(0), I(2), I(4)}

ForecastValues == {NaN, I(1), I(4)}

InitErrorMetrics ==
    /\ call \in [fn : {"errorMetrics"},
                 actual : SeqsUpTo(ActualValues, MaxErrLen),
                 forecast : SeqsUpTo(ForecastValues, MaxErrLen)]
    /\ ret = NoRet
    /\ pc = "ready"
    /\ NoApp

CallErrorMetrics ==
    /\ pc = "ready"
    /\ call.fn = "errorMetrics"
    /\ ret' = errorMetrics(call.actual, call.forecast)
    /\ pc' = "done"
    /\ UNCHANGED <<call, app>>

NextErrorMetrics == CallErrorMetrics

SpecErrorMetrics == InitErrorMetrics /\ [][NextErrorMetrics]_vars

\* ------------------------------------------------------------------------
\* generateForecast
\* ------------------------------------------------------------------------

forecastPoint_oneSided(linear, lastMA, lastEMA, lastWMA, se) ==
    [linear |-> linear, ma |-> lastMA, ema |-> lastEMA, wma |-> lastWMA,
     lower |-> SSub(S(linear), SScale(Rat(196, 100), se)),
     upper |-> SAdd(S(linear), se)]

forecastPoint_swapped(linear, lastMA, lastEMA, lastWMA, se) ==
    [linear |-> linear, ma |-> lastEMA, ema |-> lastMA, wma |-> lastWMA,
     lower |-> SSub(S(linear), SScale(Rat(196, 100), se)),
     upper |-> SAdd(S(linear), SScale(Rat(196, 100), se))]

\* { linear, ma, ema, wma, lower: linear - 1.96 * se, upper: linear + 1.96 * se }
forecastPoint(linear, lastMA, lastEMA, lastWMA, se) ==
    [linear |-> linear, ma |-> lastMA, ema |-> lastEMA, wma |-> lastWMA,
     lower |-> SSub(S(linear), SScale(Rat(196, 100), se)),
     upper |-> SAdd(S(linear), SScale(Rat(196, 100), se))]

generateForecast(revenues, periods, maWindow, emaAlpha) ==
    LET reg == linearRegression(revenues)
        emaVals == exponentialMovingAverage(revenues, emaAlpha)
        residuals == [i \in 1..Len(revenues) |-> RSub(revenues[i], predict(reg, I(i - 1)))]
        se == stdDev(definedOnly(residuals))
        lastMA == LastOrZero(definedOnly(movingAverage(revenues, maWindow)))
        lastEMA == LastOrZero(emaVals)
        wmaVals == weightedMovingAverage(revenues, maWindow)
        lastWMA == LastOrZero(definedOnly(wmaVals))
        n == Len(revenues)
    IN  [k \in 1..periods |->
            forecastPoint(predict(reg, I(n + k - 1)), lastMA, lastEMA, lastWMA, se)]

\* Longest history, most periods and widest window of the forecast
\* specification
MaxHistory == 4

MaxPeriods == 3

MaxWindow == 3

ForecastRevenues == {I(0), I(3), Rat(5, 2)}

\* The configured default 0.3, and another smoothing factor
Alphas == {Rat(3, 10), Rat(1, 2)}

InitForecast ==
    /\ call \in [fn : {"generateForecast"},
                 revenues : SeqsUpTo(ForecastRevenues, MaxHistory),
                 periods : 0..MaxPeriods,
                 maWindow : 1..MaxWindow,
                 emaAlpha : Alphas]
    /\ ret = NoRet
    /\ pc = "ready"
    /\ NoApp

CallGenerateForecast ==
    /\ pc = "ready"
    /\ call.fn = "generateForecast"
    /\ ret' = generateForecast(call.revenues, call.periods, call.maWindow, call.emaAlpha)
    /\ pc' = "done"
    /\ UNCHANGED <<call, app>>

NextForecast == CallGenerateForecast

SpecForecast == InitForecast /\ [][NextForecast]_vars

\* ------------------------------------------------------------------------
\* ENTERPRISE HEALTH INDEX (0-100)
\* ------------------------------------------------------------------------

enterpriseHealthIndex_noClamp(params) ==
    LET growthScore    == RAdd(I(50), RMul(params.cagr, I(100)))
        stabilityScore == RMul(RSub(I(1), params.cv), I(100))
        profitScore    == RMul(params.profit_margin, I(2))
        forecastScore  == RSub(I(100), RMul(params.mape, I(2)))
        score == RAdd(RAdd(RAdd(RMul(Rat(1, 4), growthScore),
                                RMul(Rat(1, 4), stabilityScore)),
                           RMul(Rat(1, 4), profitScore)),
                      RMul(Rat(1, 4), forecastScore))
    IN  [score |-> MathRound(score),
         components |-> [growth |-> MathRound(growthScore),
                         stability |-> MathRound(stabilityScore),
                         profitability |-> MathRound(profitScore),
                         forecast_reliability |-> MathRound(forecastScore)]]

enterpriseHealthIndex_roundFirst(params) ==
    LET growthScore    == MathRound(MathMin(I(100), MathMax(I(0), RAdd(I(50), RMul(params.cagr, I(100))))))
        stabilityScore == MathRound(MathMin(I(100), MathMax(I(0), RMul(RSub(I(1), params.cv), I(100)))))
        profitScore    == MathRound(MathMin(I(100), MathMax(I(0), RMul(params.profit_margin, I(2)))))
        forecastScore  == MathRound(MathMin(I(100), MathMax(I(0), RSub(I(100), RMul(params.mape, I(2))))))
        score == RAdd(RAdd(RAdd(RMul(Rat(1, 4), I(growthScore)),
                                RMul(Rat(1, 4), I(stabilityScore))),
                           RMul(Rat(1, 4), I(profitScore))),
                      RMul(Rat(1, 4), I(forecastScore)))
    IN  [score |-> MathRound(score),
         components |-> [growth |-> growthScore,
                         stability |-> stabilityScore,
                         profitability |-> profitScore,
                         forecast_reliability |-> forecastScore]]

enterpriseHealthIndex(params) ==
    LET growthScore    == MathMin(I(100), MathMax(I(0), RAdd(I(50), RMul(params.cagr, I(100)))))
        stabilityScore == MathMin(I(100), MathMax(I(0), RMul(RSub(I(1), params.cv), I(100))))
        profitScore    == MathMin(I(100), MathMax(I(0), RMul(params.profit_margin, I(2))))
        forecastScore  == MathMin(I(100), MathMax(I(0), RSub(I(100), RMul(params.mape, I(2)))))
        score == RAdd(RAdd(RAdd(RMul(Rat(1, 4), growthScore),
                                RMul(Rat(1, 4), stabilityScore)),
                           RMul(Rat(1, 4), profitScore)),
                      RMul(Rat(1, 4), forecastScore))
    IN  [score |-> MathRound(score),
         components |-> [growth |-> MathRound(growthScore),
                         stability |-> MathRound(stabilityScore),
                         profitability |-> MathRound(profitScore),
                         forecast_reliability |-> MathRound(forecastScore)]]

\* Inputs of the health index: the quarters k/4 with |k| <= MaxQuarter, and
\* two values far outside [0, 1].
MaxQuarter == 4

HealthInputs == {Rat(k, 4) : k \in -MaxQuarter..MaxQuarter} \cup {I(-1000), I(1000)}

InitHealth ==
    /\ call \in [fn : {"enterpriseHealthIndex"},
                 cagr : HealthInputs, cv : HealthInputs,
                 profit_margin : HealthInputs, mape : HealthInputs]
    /\ ret = NoRet
    /\ pc = "ready"
    /\ NoApp

CallEnterpriseHealthIndex ==
    /\ pc = "ready"
    /\ call.fn = "enterpriseHealthIndex"
    /\ ret' = enterpriseHealthIndex([cagr |-> call.cagr, cv |-> call.cv,
                                     profit_margin |-> call.profit_margin,
                                     mape |-> call.mape])
    /\ pc' = "done"
    /\ UNCHANGED <<call, app>>

NextHealth == CallEnterpriseHealthIndex

SpecHealth == InitHealth /\ [][NextHealth]_vars

HealthDone == pc = "done" /\ call.fn = "enterpriseHealthIndex"

\* ------------------------------------------------------------------------
\* LSRIS Storage Layer (src/src/utils/storage.ts)
\* ------------------------------------------------------------------------
\* localStorage maps a key to <<>> when nothing is stored under it and to
\* <<item>> otherwise.  An item is held as the value JSON.parse gives back
\* from the stored text: the items stored here are arrays and records of
\* strings, numbers and booleans, which JSON.stringify and JSON.parse carry
\* over unchanged.  A string of digits (a PIN, a hash in base 16) is the
\* sequence of its digits' values; '' is <<>>.

KEYS ==
    [ORDERS |-> "lsris_orders", ITEMS |-> "lsris_items",
     COSTS |-> "lsris_costs", CONFIG |-> "lsris_config"]

\* The keys written by the code that is modelled: those of KEYS and the key
\* "orders" that toggleLock writes
StorageKeys == {KEYS.ORDERS, KEYS.ITEMS, KEYS.COSTS, KEYS.CONFIG, "orders"}

EmptyStorage == [k \in StorageKeys |-> <<>>]

DEFAULT_ITEMS == <<"Roti", "Chapati", "Katak Roti", "Katak Chapati">>

DEFAULT_CONFIG ==
    [pin_hash |-> <<>>, forecasting_window |-> 7, ema_alpha |-> Rat(3, 10),
     currency_symbol |-> "RM"]

get(storage, k, fallback) ==
    IF storage[k] = <<>> THEN fallback ELSE storage[k][1]

set(storage, k, item) == [storage EXCEPT ![k] = <<item>>]

\* ── ORDERS

getOrders(storage) == get(storage, KEYS.ORDERS, <<>>)

\* list.findIndex(o => o.id === id): the first position, counted from 1, of
\* an entry with that id, and 0 when there is none (positions from 0 and -1
\* in the source)
findIndex(list, id) ==
    IF \E i \in 1..Len(list) : list[i].id = id
    THEN CHOOSE i \in 1..Len(list) :
             list[i].id = id /\ \A j \in 1..(i - 1) : list[j].id # id
    ELSE 0

saveOrder_alwaysPush(storage, order) ==
    set(storage, KEYS.ORDERS, Append(getOrders(storage), order))

saveOrder(storage, order) ==
    LET orders == getOrders(storage)
        idx == findIndex(orders, order.id)
    IN  set(storage, KEYS.ORDERS,
            IF idx >= 1 THEN [orders EXCEPT ![idx] = order]
            ELSE Append(orders, order))

deleteOrder(storage, id) ==
    set(storage, KEYS.ORDERS, SelectSeq(getOrders(storage), LAMBDA o : o.id # id))

\* ── ITEMS

getItems(storage) ==
    IF get(storage, KEYS.ITEMS, <<>>) = <<>>
    THEN [items |-> DEFAULT_ITEMS, storage |-> set(storage, KEYS.ITEMS, DEFAULT_ITEMS)]
    ELSE [items |-> get(storage, KEYS.ITEMS, <<>>), storage |-> storage]

\* ── CONFIG

getConfig(storage) == get(storage, KEYS.CONFIG, DEFAULT_CONFIG)

saveConfig(storage, config) == set(storage, KEYS.CONFIG, config)

\* ── PIN AUTH

\* pin.charCodeAt(i) for the digit at position i
charCodeAt(pin, i) == 48 + pin[i]

hashStep_sum(hash, code) ==
    LET low == hash[2] + code
    IN  <<(hash[1] + (low \div 65536)) % 65536, low % 65536>>

\* (hash * 31 + code) >>> 0: the 32-bit hash is held as its two 16-bit
\* halves <<high, low>>
hashStep(hash, code) ==
    LET low == hash[2] * 31 + code
    IN  <<(hash[1] * 31 + (low \div 65536)) % 65536, low % 65536>>

\* The hash after the first n characters of pin
RECURSIVE hashLoop(_, _)
hashLoop(pin, n) ==
    IF n = 0 THEN <<0, 0>>
    ELSE hashStep(hashLoop(pin, n - 1), charCodeAt(pin, n))

\* The digits of n in base 16, most significant first
RECURSIVE Hex(_)
Hex(n) == IF n < 16 THEN <<n>> ELSE Hex(n \div 16) \o <<n % 16>>

\* hash.toString(16)
toString16(hash) ==
    IF hash[1] = 0 THEN Hex(hash[2])
    ELSE Hex(hash[1]) \o <<hash[2] \div 4096, (hash[2] \div 256) % 16,
                            (hash[2] \div 16) % 16, hash[2] % 16>>

hashPin(pin) == toString16(hashLoop(pin, Len(pin)))

isPinSet(storage) == getConfig(storage).pin_hash # <<>>

setPin(storage, pin) ==
    saveConfig(storage, [getConfig(storage) EXCEPT !.pin_hash = hashPin(pin)])

verifyPin(storage, pin) ==
    IF getConfig(storage).pin_hash = <<>> THEN TRUE
    ELSE hashPin(pin) = getConfig(storage).pin_hash

\* ---- the order store ----------------------------------------------------

\* Most orders in the store, and the largest order id
MaxOrders == 3

Quantities == {1, 2}

\* An order: its id, its lock and, of the other fields, the quantity
Orders == [id : 1..MaxOrders, locked : {FALSE}, quantity : Quantities]

NoCall == [fn |-> "none"]

InitOrders ==
    /\ call = NoCall
    /\ ret = NoRet
    /\ pc = "idle"
    /\ localStorage = EmptyStorage
    /\ cloud = <<>>
    /\ screen = <<>>
    /\ timers = <<>>

CallSaveOrder ==
    \E order \in Orders :
        /\ findIndex(getOrders(localStorage), order.id) >= 1
             \/ Len(getOrders(localStorage)) < MaxOrders
        /\ localStorage' = saveOrder(localStorage, order)
        /\ call' = [fn |-> "saveOrder", order |-> order]
        /\ UNCHANGED <<ret, pc, cloud, screen, timers>>

CallDeleteOrder ==
    \E id \in 1..MaxOrders :
        /\ localStorage' = deleteOrder(localStorage, id)
        /\ call' = [fn |-> "deleteOrder", id |-> id]
        /\ UNCHANGED <<ret, pc, cloud, screen, timers>>

NextOrders == CallSaveOrder \/ CallDeleteOrder

SpecOrders == InitOrders /\ [][NextOrders]_vars

\* ---- the PIN ------------------------------------------------------------

\* The length of a PIN
PinLength == 4

PinDigits == {0, 9}

Pins == [1..PinLength -> PinDigits]

\* The strings tried against the PIN: of a PIN's length and shorter
PinInputs == SeqsUpTo(PinDigits, PinLength)

InitPin ==
    /\ call = NoCall
    /\ ret = NoRet
    /\ pc = "idle"
    /\ localStorage = EmptyStorage
    /\ cloud = <<>>
    /\ screen = <<>>
    /\ timers = <<>>

CallSetPin ==
    \E pin \in Pins :
        /\ localStorage' = setPin(localStorage, pin)
        /\ call' = [fn |-> "setPin", pin |-> pin]
        /\ ret' = NoRet
        /\ UNCHANGED <<pc, cloud, screen, timers>>

CallVerifyPin ==
    \E pin \in PinInputs :
        /\ call' = [fn |-> "verifyPin", pin |-> pin]
        /\ ret' = verifyPin(localStorage, pin)
        /\ UNCHANGED <<pc, localStorage, cloud, screen, timers>>

CallIsPinSet ==
    /\ call' = [fn |-> "isPinSet"]
    /\ ret' = isPinSet(localStorage)
    /\ UNCHANGED <<pc, localStorage, cloud, screen, timers>>

NextPin == CallSetPin \/ CallVerifyPin \/ CallIsPinSet

SpecPin == InitPin /\ [][NextPin]_vars

\* ------------------------------------------------------------------------
\* Timeouts
\* ------------------------------------------------------------------------
\* timers holds the pending timeouts in the order setTimeout started them,
\* each with its delay in milliseconds and what its callback captured.

\* The timeout at position i may be the next to run: none started before it
\* has a delay that is not longer, as that one is due first
Runnable(pending, i) == \A j \in 1..(i - 1) : pending[j].delay > pending[i].delay

Remove(pending, i) == SubSeq(pending, 1, i - 1) \o SubSeq(pending, i + 1, Len(pending))

\* ------------------------------------------------------------------------
\* The PIN screen (src/src/components/Login.tsx)
\* ------------------------------------------------------------------------
\* screen is the state of the component: mode, pin, confirmPin, error and
\* shake.  A callback captures next, and the pin of the render in which the
\* digit was pressed.

\* Most timeouts pending at a time
MaxTimers == 2

Timer(delay, run, next, pin) == [delay |-> delay, run |-> run, next |-> next, pin |-> pin]

\* triggerShake's timeout
Unshake == Timer(500, "unshake", <<>>, <<>>)

\* The state of the component when it is mounted
LoginScreen(storage) ==
    [mode |-> IF isPinSet(storage) THEN "enter" ELSE "setup",
     pin |-> <<>>, confirmPin |-> <<>>, error |-> "", shake |-> FALSE]

InitLogin ==
    /\ call = NoCall
    /\ ret = "none"
    /\ pc = "idle"
    /\ localStorage \in {EmptyStorage} \cup {setPin(EmptyStorage, pin) : pin \in Pins}
    /\ cloud = <<>>
    /\ screen = LoginScreen(localStorage)
    /\ timers = <<>>

handleDigit(state, pending, d) ==
    LET cleared == [state EXCEPT !.error = ""]
    IN  IF state.mode = "enter" /\ Len(state.pin) < PinLength
        THEN LET next == Append(state.pin, d)
             IN  [screen |-> [cleared EXCEPT !.pin = next],
                  timers |-> IF Len(next) = PinLength
                             THEN Append(pending, Timer(150, "verify", next, <<>>))
                             ELSE pending]
        ELSE IF state.mode = "setup" /\ Len(state.pin) < PinLength
        THEN LET next == Append(state.pin, d)
             IN  [screen |-> [cleared EXCEPT !.pin = next],
                  timers |-> IF Len(next) = PinLength
                             THEN Append(pending, Timer(150, "confirm", <<>>, <<>>))
                             ELSE pending]
        ELSE IF state.mode = "confirm" /\ Len(state.confirmPin) < PinLength
        THEN LET next == Append(state.confirmPin, d)
             IN  [screen |-> [cleared EXCEPT !.confirmPin = next],
                  timers |-> IF Len(next) = PinLength
                             THEN Append(pending, Timer(150, "compare", next, state.pin))
                             ELSE pending]
        ELSE [screen |-> cleared, timers |-> pending]

\* p.slice(0, -1)
DropLast(p) == IF p = <<>> THEN <<>> ELSE SubSeq(p, 1, Len(p) - 1)

handleBackspace(state) ==
    IF state.mode = "confirm"
    THEN [state EXCEPT !.error = "", !.confirmPin = DropLast(state.confirmPin)]
    ELSE [state EXCEPT !.error = "", !.pin = DropLast(state.pin)]

HandleDigit ==
    \E d \in PinDigits :
        /\ Len(timers) < MaxTimers
        /\ screen' = handleDigit(screen, timers, d).screen
        /\ timers' = handleDigit(screen, timers, d).timers
        /\ call' = [fn |-> "handleDigit", d |-> d]
        /\ ret' = "none"
        /\ UNCHANGED <<pc, localStorage, cloud>>

HandleBackspace ==
    /\ screen' = handleBackspace(screen)
    /\ call' = [fn |-> "handleBackspace"]
    /\ ret' = "none"
    /\ UNCHANGED <<pc, localStorage, cloud, timers>>

\* The callback of the enter mode: verifyPin(next)
RunVerify(callback, rest) ==
    IF verifyPin(localStorage, callback.next)
    THEN /\ ret' = "onAuthenticated"
         /\ timers' = rest
         /\ UNCHANGED <<screen, localStorage>>
    ELSE /\ ret' = "none"
         /\ screen' = [screen EXCEPT !.error = "Incorrect PIN", !.pin = <<>>,
                                     !.shake = TRUE]
         /\ timers' = Append(rest, Unshake)
         /\ UNCHANGED localStorage

\* The callback of the setup mode: setMode('confirm')
RunConfirm(rest) ==
    /\ ret' = "none"
    /\ screen' = [screen EXCEPT !.mode = "confirm"]
    /\ timers' = rest
    /\ UNCHANGED localStorage

\* The callback of the confirm mode: next === pin
RunCompare(callback, rest) ==
    IF callback.next = callback.pin
    THEN /\ ret' = "onAuthenticated"
         /\ localStorage' = setPin(localStorage, callback.pin)
         /\ timers' = rest
         /\ UNCHANGED screen
    ELSE /\ ret' = "none"
         /\ screen' = [screen EXCEPT !.error = "PINs do not match. Try again.",
                                     !.pin = <<>>, !.confirmPin = <<>>,
                                     !.mode = "setup", !.shake = TRUE]
         /\ timers' = Append(rest, Unshake)
         /\ UNCHANGED localStorage

RunUnshake(rest) ==
    /\ ret' = "none"
    /\ screen' = [screen EXCEPT !.shake = FALSE]
    /\ timers' = rest
    /\ UNCHANGED localStorage

LoginTimeout ==
    \E i \in 1..Len(timers) :
        /\ Runnable(timers, i)
        /\ call' = [fn |-> "timeout", callback |-> timers[i]]
        /\ CASE timers[i].run = "verify" -> RunVerify(timers[i], Remove(timers, i))
             [] timers[i].run = "confirm" -> RunConfirm(Remove(timers, i))
             [] timers[i].run = "compare" -> RunCompare(timers[i], Remove(timers, i))
             [] timers[i].run = "unshake" -> RunUnshake(Remove(timers, i))
        /\ UNCHANGED <<pc, cloud>>

NextLogin == HandleDigit \/ HandleBackspace \/ LoginTimeout

SpecLogin == InitLogin /\ [][NextLogin]_vars

\* ------------------------------------------------------------------------
\* The cloud database (firestoreService, src/src/pages/Costs.tsx)
\* ------------------------------------------------------------------------
\* cloud holds whether a user is signed in (auth.currentUser), the
\* documents of the collections revenueEntries and trashEntries, each with
\* its document id and its data, and the next document id.  There is one
\* user: every document is theirs; the timestamps are left out.

EmptyCloud(user) ==
    [user |-> user, revenueEntries |-> <<>>, trashEntries |-> <<>>, nextDoc |-> 1]

saveRevenueEntry_noUserCheck(db, data) ==
    [db EXCEPT !.revenueEntries = Append(@, [docId |-> db.nextDoc, data |-> data]),
               !.nextDoc = @ + 1]

saveRevenueEntry(db, data) ==
    IF ~db.user THEN db
    ELSE [db EXCEPT !.revenueEntries = Append(@, [docId |-> db.nextDoc, data |-> data]),
                    !.nextDoc = @ + 1]

\* { ...docSnap.data(), firestoreId: docSnap.id }
Loaded(document) ==
    [id |-> document.data.id, locked |-> document.data.locked,
     quantity |-> document.data.quantity, firestoreId |-> document.docId]

loadRevenueEntries(db) ==
    IF ~db.user THEN <<>>
    ELSE [i \in 1..Len(db.revenueEntries) |-> Loaded(db.revenueEntries[i])]

trashRevenueEntry(db, firestoreId) ==
    IF \A i \in 1..Len(db.revenueEntries) : db.revenueEntries[i].docId # firestoreId
    THEN db
    ELSE LET at == CHOOSE i \in 1..Len(db.revenueEntries) :
                       db.revenueEntries[i].docId = firestoreId
         IN  [db EXCEPT !.trashEntries =
                            Append(@, [docId |-> db.nextDoc,
                                       data |-> db.revenueEntries[at].data]),
                        !.revenueEntries = Remove(@, at),
                        !.nextDoc = @ + 1]

\* ------------------------------------------------------------------------
\* The sales-entry screen (src/unnamed/part_001)
\* ------------------------------------------------------------------------
\* screen is the state of the component: undoOrder (<<>> for null, <<order>>
\* otherwise), cloudOrders and saved.  The fields of the form are the
\* inputs of handleSubmit; a valid form is submitted.

\* Most sales, and the largest sale id
MaxSales == 2

\* Most documents the cloud is given
MaxDocs == 3

\* order?.firestoreId, 0 for undefined
firestoreIdOf(sale) ==
    IF "firestoreId" \in DOMAIN sale THEN sale.firestoreId ELSE 0

\* The state of the component when it is mounted and the entries of the
\* cloud are loaded
SalesScreen(db) ==
    [undoOrder |-> <<>>, cloudOrders |-> loadRevenueEntries(db), saved |-> FALSE]

\* const allOrders = cloudOrders.length > 0 ? cloudOrders : getOrders()
allOrders(state, storage) ==
    IF Len(state.cloudOrders) > 0 THEN state.cloudOrders ELSE getOrders(storage)

IdsIn(list) == {list[i].id : i \in 1..Len(list)}

\* The ids that an order somewhere carries; crypto.randomUUID() gives none
\* of them
UsedIds ==
    IdsIn(getOrders(localStorage)) \cup IdsIn(screen.cloudOrders)
        \cup IdsIn(screen.undoOrder)
        \cup {cloud.revenueEntries[i].data.id : i \in 1..Len(cloud.revenueEntries)}
        \cup {cloud.trashEntries[i].data.id : i \in 1..Len(cloud.trashEntries)}

InitSalesEntry ==
    /\ call = NoCall
    /\ ret = "none"
    /\ pc = "idle"
    /\ localStorage = getItems(EmptyStorage).storage
    /\ cloud \in {EmptyCloud(user) : user \in BOOLEAN}
    /\ screen = SalesScreen(cloud)
    /\ timers = <<>>

\* The page is opened again: the component is mounted anew, renders
\* (getItems) and loads the entries of the cloud
Mount ==
    /\ localStorage' = getItems(localStorage).storage
    /\ screen' = SalesScreen(cloud)
    /\ timers' = <<>>
    /\ call' = [fn |-> "mount"]
    /\ ret' = "none"
    /\ UNCHANGED <<pc, cloud>>

HandleSubmit ==
    \E id \in 1..MaxSales, quantity \in Quantities :
        LET sale == [id |-> id, locked |-> FALSE, quantity |-> quantity]
        IN  /\ id \notin UsedIds
            /\ cloud.nextDoc <= MaxDocs
            /\ Len(timers) < MaxTimers
            /\ localStorage' = saveOrder(localStorage, sale)
            /\ cloud' = saveRevenueEntry(cloud, sale)
            /\ screen' = [screen EXCEPT !.saved = TRUE]
            /\ timers' = Append(timers, Timer(2000, "saved", <<>>, <<>>))
            /\ call' = [fn |-> "handleSubmit", id |-> id]
            /\ ret' = "none"
            /\ UNCHANGED pc

\* orders.map(o => o.id === id ? { ...o, locked: !o.locked } : o)
toggled(orders, id) ==
    [i \in 1..Len(orders) |->
        IF orders[i].id = id THEN [orders[i] EXCEPT !.locked = ~@] ELSE orders[i]]

ToggleLock ==
    \E id \in IdsIn(allOrders(screen, localStorage)) :
        /\ localStorage' = [localStorage EXCEPT
                               !["orders"] = <<toggled(getOrders(localStorage), id)>>]
        /\ call' = [fn |-> "toggleLock", id |-> id]
        /\ ret' = "none"
        /\ UNCHANGED <<pc, cloud, screen, timers>>

\* allOrders.find(o => o.id === id)
find(list, id) == list[findIndex(list, id)]

HandleDelete ==
    \E id \in IdsIn(allOrders(screen, localStorage)) :
        LET sale == find(allOrders(screen, localStorage), id)
        IN  /\ call' = [fn |-> "handleDelete", id |-> id]
            /\ IF sale.locked
               THEN /\ ret' = "alert"
                    /\ UNCHANGED <<localStorage, cloud, screen, timers>>
               ELSE /\ cloud.nextDoc <= MaxDocs
                    /\ Len(timers) < MaxTimers
                    /\ ret' = "none"
                    /\ localStorage' = deleteOrder(localStorage, id)
                    /\ cloud' = IF firestoreIdOf(sale) # 0
                                THEN trashRevenueEntry(cloud, firestoreIdOf(sale))
                                ELSE cloud
                    /\ screen' = [screen EXCEPT !.undoOrder = <<sale>>]
                    /\ timers' = Append(timers, Timer(5000, "undo", <<>>, <<>>))
            /\ UNCHANGED pc

\* The UNDO button of the banner, shown while undoOrder is set
Undo ==
    /\ screen.undoOrder # <<>>
    /\ cloud.nextDoc <= MaxDocs
    /\ cloud' = saveRevenueEntry(cloud, screen.undoOrder[1])
    /\ screen' = [screen EXCEPT !.undoOrder = <<>>]
    /\ call' = [fn |-> "undo"]
    /\ ret' = "none"
    /\ UNCHANGED <<pc, localStorage, timers>>

SalesTimeout ==
    \E i \in 1..Len(timers) :
        /\ Runnable(timers, i)
        /\ call' = [fn |-> "timeout", callback |-> timers[i]]
        /\ ret' = "none"
        /\ screen' = IF timers[i].run = "undo"
                     THEN [screen EXCEPT !.undoOrder = <<>>]
                     ELSE [screen EXCEPT !.saved = FALSE]
        /\ timers' = Remove(timers, i)
        /\ UNCHANGED <<pc, localStorage, cloud>>

NextSalesEntry ==
    Mount \/ HandleSubmit \/ ToggleLock \/ HandleDelete \/ Undo \/ SalesTimeout

SpecSalesEntry == InitSalesEntry /\ [][NextSalesEntry]_vars

\* ========================================================================
\* Claims
\* ========================================================================

\* ---- Enterprise health index -------------------------------------------

\* The margin the two callers pass: Dashboard passes profitMarginPct / 100
\* with profitMarginPct = monthRev > 0 ? (profit / monthRev) * 100 : 0, and
\* generatePDFReport passes monthRev > 0 ? profit / monthRev : 0.  Both are
\* the fraction profit / monthRev.
dashboardProfitMargin(monthRev, totalCost) ==
    LET profit == RSub(monthRev, totalCost)
        profitMarginPct == IF RLt(I(0), monthRev)
                           THEN RMul(RDiv(profit, monthRev), I(100)) ELSE I(0)
    IN  RDiv(profitMarginPct, I(100))

reportProfitMargin(monthRev, totalCost) ==
    LET profit == RSub(monthRev, totalCost)
    IN  IF RLt(I(0), monthRev) THEN RDiv(profit, monthRev) ELSE I(0)

CallerMargins ==
    {dashboardProfitMargin(I(r), I(c)) : r \in 0..4, c \in 0..4}
        \cup {reportProfitMargin(I(r), I(c)) : r \in 0..4, c \in 0..4}

\* C1 (as claimed): the call cagr = 0, cv = 0, profit_margin = 0.25, mape = 0
\* returns growth 50, stability 100, profitability 50, forecast_reliability
\* 100 and the overall score 75.
C1_ExampleScore ==
    (HealthDone /\ call.cagr = I(0) /\ call.cv = I(0)
        /\ call.profit_margin = Rat(1, 4) /\ call.mape = I(0))
    => ret = [score |-> 75,
              components |-> [growth |-> 50, stability |-> 100,
                              profitability |-> 50,
                              forecast_reliability |-> 100]]

\* C2 (as claimed): profitability is profit_margin * 200 clamped to
\* [0, 100] for the fraction the callers pass: 100 for every margin >= 0.5,
\* and 50 for the margin 0.25.
C2_ProfitabilityOfFraction ==
    (HealthDone /\ call.profit_margin \in CallerMargins)
    => /\ RLe(Rat(1, 2), call.profit_margin) => ret.components.profitability = 100
       /\ call.profit_margin = Rat(1, 4) => ret.components.profitability = 50

\* C3: for every input, negative and very large ones included, the score
\* and each of the four components is an integer in [0, 100].
C3_ScoreRange ==
    HealthDone
    => /\ ret.score \in 0..100
       /\ \A k \in {"growth", "stability", "profitability", "forecast_reliability"} :
              ret.components[k] \in 0..100

\* C3's case: a negative growth rate and a very large error, both saturating.
C3_Witness ==
    /\ HealthDone
    /\ call.cagr = I(-1000) /\ call.mape = I(1000) /\ call.cv = I(-1000)
    /\ ret.components.growth = 0
    /\ ret.components.forecast_reliability = 0
    /\ ret.components.stability = 100

\* ---- Anomaly detection -------------------------------------------------

AnomDone == pc = "done" /\ call.fn = "detectAnomalies"

\* The series is constant but for exactly one strictly larger value, at k.
OneSpike(rs, k) ==
    /\ k \in 1..Len(rs)
    /\ \E c \in AnomRevenues :
          /\ RLt(c, rs[k])
          /\ \A i \in 1..Len(rs) : i # k => rs[i] = c

FlagsExactly(k) == \A i \in 1..Len(ret) : ret[i].is_anomaly <=> (i = k)

\* C4 (as claimed): with the default threshold, a series of length n >= 5
\* that is constant but for one strictly larger value has exactly that
\* value flagged.
C4_SpikeFlaggedFrom5 ==
    (AnomDone /\ call.threshold = I(DefaultThreshold) /\ Len(call.revenues) >= 5)
    => \A k \in 1..Len(call.revenues) :
           OneSpike(call.revenues, k) => FlagsExactly(k)

\* C4 (amended): the same for n >= 6.  At n = 5 the spike's z-score is
\* sqrt(n - 1) = 2, which is not strictly above the threshold 2.
C4_SpikeFlaggedFrom6 ==
    (AnomDone /\ call.threshold = I(DefaultThreshold) /\ Len(call.revenues) >= 6)
    => \A k \in 1..Len(call.revenues) :
           OneSpike(call.revenues, k) => FlagsExactly(k)

C4_Witness ==
    /\ AnomDone /\ call.threshold = I(DefaultThreshold)
    /\ Len(call.revenues) = 6
    /\ OneSpike(call.revenues, 4)
    /\ ret[4].is_anomaly
    /\ ret[4].zscore = <<I(0), I(1), 5>>

AllEqual(rs) == \A i, j \in 1..Len(rs) : rs[i] = rs[j]

\* |z_i| > t, stated on integers without a square root: with S the sum of
\* the n values v, z_i = (n v_i - S) / sqrt(n * SUM (n v_j - S)^2) * n, so
\* |z_i| > t  iff  n * (n v_i - S)^2 > t^2 * SUM (n v_j - S)^2  (t >= 0),
\* and z_i = 0 when the sum of squares is 0.
RECURSIVE IntSum(_)
IntSum(xs) == IF xs = <<>> THEN 0 ELSE IntSum(Tail(xs)) + Head(xs)

AboveThreshold(rs, i, t) ==
    LET n  == Len(rs)
        v  == [j \in 1..n |-> rs[j][1]]
        sm == IntSum(v)
        ss == IntSum([j \in 1..n |-> (n * v[j] - sm) * (n * v[j] - sm)])
    IN  /\ ss # 0
        /\ n * (n * v[i] - sm) * (n * v[i] - sm) * t[2] * t[2] > t[1] * t[1] * ss

RegDone == pc = "done" /\ call.fn = "linearRegression"

\* The series is a + b * i for i = 0 .. n-1, with n >= 2.
IsLinear(vs, a, b) ==
    /\ Len(vs) >= 2
    /\ \A i \in 1..Len(vs) : vs[i] = RAdd(a, RMul(b, I(i - 1)))

\* C9: for n >= 2 the series [0, 1, ..., n-1] yields slope 1, intercept 0
\* and r_squared 1; a series a + b*i with b # 0 yields slope b, intercept a,
\* r_squared 1 and predict(x) = a + b*x for every x, beyond the observed
\* range too.
C9_LinearRoundTrip ==
    RegDone
    => /\ IsLinear(call.values, I(0), I(1))
            => ret.slope = I(1) /\ ret.intercept = I(0) /\ ret.r_squared = I(1)
       /\ Len(call.values) >= 2
            => LET a == call.values[1]
                   b == RSub(call.values[2], call.values[1])
               IN  (b # I(0) /\ IsLinear(call.values, a, b))
                   => /\ ret.slope = b
                      /\ ret.intercept = a
                      /\ ret.r_squared = I(1)
                      /\ \A x \in 0..MaxX : predict(ret, I(x)) = RAdd(a, RMul(b, I(x)))

\* C9's case: a decreasing series with a non-zero intercept, extrapolated.
C9_Witness ==
    /\ RegDone
    /\ call.values = <<I(4), I(3), I(2), I(1)>>
    /\ ret.slope = I(-1) /\ ret.intercept = I(4) /\ ret.r_squared = I(1)
    /\ predict(ret, I(MaxX)) = I(4 - MaxX)

SensDone == pc = "done" /\ call.fn = "sensitivitySimulation"

\* C8: for every input there are exactly 7 results, in the order Base,
\* +5% Price, -5% Price, +10% Qty, -10% Qty, (+5% Price, +10% Qty),
\* (-5% Price, -10% Qty), and the Base result's estimated_revenue is
\* basePrice * baseQuantity.
C8_SevenScenarios ==
    SensDone
    => /\ Len(ret) = 7
       /\ [k \in 1..7 |-> ret[k].scenario]
            = <<"Base", "+5% Price", "-5% Price", "+10% Qty", "-10% Qty",
                "+5% Price, +10% Qty", "-5% Price, -10% Qty">>
       /\ [k \in 1..7 |-> <<ret[k].price_change, ret[k].quantity_change>>]
            = << <<I(0), I(0)>>, <<I(5), I(0)>>, <<I(-5), I(0)>>,
                 <<I(0), I(10)>>, <<I(0), I(-10)>>,
                 <<I(5), I(10)>>, <<I(-5), I(-10)>> >>
       /\ ret[1].estimated_revenue = RMul(call.basePrice, call.baseQuantity)

\* C8's case: a base revenue that differs from price * quantity.
C8_Witness ==
    /\ SensDone
    /\ call.basePrice = Rat(6, 5) /\ call.baseQuantity = I(3)
    /\ call.baseRevenue = Rat(21, 2)
    /\ ret[1].scenario = "Base"
    /\ ret[1].estimated_revenue = Rat(18, 5)
    /\ ret[7].scenario = "-5% Price, -10% Qty"

\* ---- Additive decomposition --------------------------------------------

DecompDone == pc = "done" /\ call.fn = "additiveDecomposition"

\* The trends are the ordinary-least-squares line through the revenues at
\* the positions 0 .. n-1: they lie on a line, and the deviations of the
\* revenues from them sum to 0 and are orthogonal to the positions (the
\* normal equations); a single point is its own trend.
IsOLSFit(revenues, trends) ==
    LET n == Len(revenues)
        dev == [i \in 1..n |-> RSub(revenues[i], trends[i])]
    IN  /\ \A i \in 2..(n - 1) :
              RSub(trends[i + 1], trends[i]) = RSub(trends[i], trends[i - 1])
        /\ Sum(dev) = I(0)
        /\ Sum([i \in 1..n |-> RMul(I(i - 1), dev[i])]) = I(0)

\* C6: additiveDecomposition returns one point per input date, in input
\* order, each with revenue = trend + seasonal + residual, the trend being
\* the OLS prediction at the point's position.
C6_DecompositionIdentity ==
    DecompDone
    => /\ Len(ret) = Len(call.dates)
       /\ \A i \in 1..Len(ret) :
            /\ ret[i].date = call.dates[i]
            /\ ret[i].revenue = call.revenues[i]
            /\ ret[i].revenue
                 = RAdd(RAdd(ret[i].trend, ret[i].seasonal), ret[i].residual)
       /\ IsOLSFit(call.revenues, [i \in 1..Len(ret) |-> ret[i].trend])

\* C6's case: four days with a gap, two of them the same weekday, a
\* non-zero seasonal term and a non-zero residual.
C6_Witness ==
    /\ DecompDone
    /\ call.dates = <<5, 6, 8, 15>>
    /\ Len(ret) = 4
    /\ ret[2].seasonal # I(0)
    /\ ret[3].residual # I(0)
    /\ ret[2].trend # ret[3].trend

\* ---- Forecast ----------------------------------------------------------

ForecastDone == pc = "done" /\ call.fn = "generateForecast"

\* The population variance of the OLS residuals over the whole history
\* (0 for fewer than two points)
ResidualVariance(revenues) ==
    LET reg == linearRegression(revenues)
        n == Len(revenues)
        res == [i \in 1..n |-> RSub(revenues[i], predict(reg, I(i - 1)))]
    IN  IF n < 2 THEN I(0) ELSE RDiv(SumSqDev(res, mean(res)), I(n))

\* The square of a surd that is rational or a pure radical
SquareOf(s) == IF s[2][1] = 0 THEN RSq(s[1]) ELSE RMul(RSq(s[2]), I(s[3]))

\* h is 1.96 * se: it is not negative and its square is 1.96^2 * variance.
IsHalfWidth(h, variance) ==
    /\ (h[1][1] = 0 \/ h[2][1] = 0)
    /\ SSign(h) >= 0
    /\ SquareOf(h) = RMul(RSq(Rat(196, 100)), variance)

\* C7: for every history and every offset lower <= linear <= upper, and the
\* band is symmetric with the same half-width 1.96 * se at every offset, se
\* being the population standard deviation of the OLS residuals over the
\* whole history.
C7_ForecastBand ==
    ForecastDone
    => \A k \in 1..Len(ret) :
          /\ SLe(ret[k].lower, S(ret[k].linear))
          /\ SLe(S(ret[k].linear), ret[k].upper)
          /\ SSub(ret[k].upper, S(ret[k].linear)) = SSub(S(ret[k].linear), ret[k].lower)
          /\ SSub(ret[k].upper, S(ret[k].linear)) = SSub(ret[1].upper, S(ret[1].linear))
          /\ IsHalfWidth(SSub(ret[k].upper, S(ret[k].linear)),
                         ResidualVariance(call.revenues))

\* C7's case: a history with non-zero residuals and a trend, three offsets,
\* a band of positive width around a linear estimate that moves.
C7_Witness ==
    /\ ForecastDone
    /\ call.revenues = <<I(0), I(3), Rat(5, 2), I(3)>>
    /\ Len(ret) = 3
    /\ SLt(ret[3].lower, S(ret[3].linear)) /\ SLt(S(ret[3].linear), ret[3].upper)
    /\ ret[1].linear # ret[3].linear

\* ---- Moving averages ---------------------------------------------------

SmoothDone(f) == pc = "done" /\ call.fn = f

\* C11: on a constant series [c, ..., c] of length n with 1 <= window <= n
\* and any alpha in (0, 1), movingAverage and weightedMovingAverage return c
\* at every defined position (index >= window - 1) and
\* exponentialMovingAverage returns c at every position.
C11_ConstantSeries ==
    (pc = "done" /\ Len(call.values) >= 1 /\ AllEqual(call.values))
    => LET c == call.values[1]
       IN  /\ (call.fn \in {"movingAverage", "weightedMovingAverage"}
                  /\ call.window <= Len(call.values))
               => /\ Len(ret) = Len(call.values)
                  /\ \A p \in call.window..Len(ret) : ret[p] = c
           /\ call.fn = "exponentialMovingAverage"
               => /\ Len(ret) = Len(call.values)
                  /\ \A p \in 1..Len(ret) : ret[p] = c

\* C11's case: the weighted average of a constant non-integer series over a
\* window of three.
C11_Witness ==
    /\ SmoothDone("weightedMovingAverage")
    /\ call.values = <<Rat(5, 2), Rat(5, 2), Rat(5, 2), Rat(5, 2)>>
    /\ call.window = 3
    /\ isNaN(ret[2])
    /\ ret[3] = Rat(5, 2) /\ ret[4] = Rat(5, 2)

\* SUM over j = 0 .. k-1 of weight(j) * values[p - j], the weight being
\* w - j when weighted and 1 otherwise
RECURSIVE TrailingSum(_, _, _, _, _)
TrailingSum(values, p, w, k, weighted) ==
    IF k = 0 THEN I(0)
    ELSE RAdd(TrailingSum(values, p, w, k - 1, weighted),
              RMul(I(IF weighted THEN w - (k - 1) ELSE 1), values[p - (k - 1)]))

\* C12: for every input of length n and window w >= 1, movingAverage and
\* weightedMovingAverage return n values; those at positions i < w - 1 are
\* the undefined marker, which is not a number (so not a computed 0), and
\* those at i >= w - 1 are numbers: the mean of values[i-w+1 .. i] for MA,
\* and for WMA the sum with weights 1 .. w (the most recent value weighted
\* w) divided by w(w+1)/2.  With w > n every position is undefined.
C12_WindowedAverages ==
    (pc = "done" /\ call.fn \in {"movingAverage", "weightedMovingAverage"})
    => LET w == call.window
           vs == call.values
       IN  /\ Len(ret) = Len(vs)
           /\ \A p \in 1..Len(ret) :
                /\ p < w => isNaN(ret[p]) /\ ret[p] # I(0)
                /\ p >= w =>
                     /\ ~isNaN(ret[p])
                     /\ call.fn = "movingAverage"
                          => RMul(ret[p], I(w))
                               = TrailingSum(vs, p, w, w, FALSE)
                     /\ call.fn = "weightedMovingAverage"
                          => RMul(ret[p], Rat(w * (w + 1), 2))
                               = TrailingSum(vs, p, w, w, TRUE)
           /\ w > Len(vs) => \A p \in 1..Len(ret) : isNaN(ret[p])

\* C12's case: a moving average over a window of three, undefined at the
\* first two positions and defined, with the value 0, at the third.
C12_Witness ==
    /\ SmoothDone("movingAverage")
    /\ call.values = <<I(0), I(0), I(0), I(3)>>
    /\ call.window = 3
    /\ isNaN(ret[1]) /\ isNaN(ret[2])
    /\ ret[3] = I(0) /\ ret[4] = I(1)

\* ---- Descriptive core and correlation ----------------------------------

\* The sum of the squared deviations from the mean, times n^2, on integers:
\* SUM (n * v_j - S)^2 with S the sum of the n integer values v
ScaledSquares(vs) ==
    LET n  == Len(vs)
        v  == [j \in 1..n |-> vs[j][1]]
        sm == IntSum(v)
    IN  IntSum([j \in 1..n |-> (n * v[j] - sm) * (n * v[j] - sm)])

\* The first k elements of vs are all equal
PrefixEqual(vs, k) == \A i, j \in 1..k : vs[i] = vs[j]

C14_DegenerateRegression ==
    (RegDone /\ Len(call.values) < 2)
    => /\ ret.slope = I(0)
       /\ ret.r_squared = I(0)
       /\ ret.intercept = IF call.values = <<>> THEN I(0) ELSE call.values[1]
       /\ \A x \in 0..MaxX : predict(ret, I(x)) = ret.intercept

\* C14's case: the fit of a one-point series predicts that point everywhere.
C14_Witness ==
    /\ RegDone
    /\ call.values = <<I(3)>>
    /\ ret.intercept = I(3)
    /\ predict(ret, I(MaxX)) = I(3)

\* A surd none of whose parts is NaN
SIsNumber(s) == ~isNaN(s[1]) /\ ~isNaN(s[2])

DetrendedAverage(points, dow) ==
    LET on == {i \in 1..Len(points) : getDay(points[i].date) = dow}
    IN  IF on = {} THEN I(0)
        ELSE RDiv(Sum([i \in 1..Len(points) |->
                          IF i \in on
                          THEN RSub(points[i].revenue, points[i].trend)
                          ELSE I(0)]),
                  I(Cardinality(on)))

\* C16: the seven re-centred weekday indices sum to zero.  A weekday with
\* no observation enters the mean as 0, so its index is minus the mean of
\* the seven averages; the seasonal term of a point is the index of its
\* weekday, the average detrended revenue of that weekday minus that mean.
C16_SeasonalIndices ==
    DecompDone
    => LET adj == seasonalAdj(call.dates, call.revenues,
                              [i \in 1..Len(ret) |-> ret[i].trend])
           avgSeasonal == RDiv(Sum([d \in 1..7 |-> DetrendedAverage(ret, d - 1)]),
                               I(7))
       IN  /\ Sum(adj) = I(0)
           /\ \A i \in 1..Len(ret) :
                /\ ret[i].seasonal = adj[getDay(call.dates[i]) + 1]
                /\ ret[i].seasonal
                     = RSub(DetrendedAverage(ret, getDay(call.dates[i])), avgSeasonal)
           /\ \A d \in 1..7 :
                (\A i \in 1..Len(call.dates) : getDay(call.dates[i]) # d - 1)
                => adj[d] = RNeg(avgSeasonal)

\* C16's case: observations on three weekdays only, a non-zero mean of the
\* seven averages, so that the unobserved Sunday has a non-zero index.
C16_Witness ==
    /\ DecompDone
    /\ call.dates = <<5, 6, 8, 15>>
    /\ call.revenues = <<I(0), I(3), I(0), I(1)>>
    /\ LET adj == seasonalAdj(call.dates, call.revenues,
                              [i \in 1..Len(ret) |-> ret[i].trend])
       IN  /\ adj[1] # I(0)
           /\ adj[1] = adj[3]
           /\ ret[2].seasonal = adj[7]
           /\ ret[2].seasonal # I(0)

\* ---- Structural breaks -------------------------------------------------

BreaksDone == pc = "done" /\ call.fn = "detectStructuralBreaks"

\* The sum of the integer values at the 0-based indices a .. b
WindowSum(vs, a, b) == IntSum([j \in 1..(b - a + 1) |-> vs[a + j][1]])

\* |mean(values[i-5..i-1]) - mean(values[i..i+4])| > sensitivity * stdDev,
\* for integer values and a sensitivity sn/sd >= 0, with both sides squared
\* and the denominators cleared:
\*   (SL - SR)^2 / 25 > (sn/sd)^2 * SUM (n v - S)^2 / n^3
MeansDiffer(vs, i, sensitivity) ==
    LET n == Len(vs)
        d == WindowSum(vs, i - 5, i - 1) - WindowSum(vs, i, i + 4)
    IN  d * d * sensitivity[2] * sensitivity[2] * n * n * n
          > 25 * sensitivity[1] * sensitivity[1] * ScaledSquares(vs)

\* C17: detectStructuralBreaks returns strictly ascending indices i with
\* 5 <= i <= n - 6, and contains i exactly when the means of the five
\* values before i and of the five values from i on differ by more than
\* sensitivity times the standard deviation of the whole series; adjacent
\* flagged indices all stay in the list; a series of length at most 10 and
\* a constant series yield the empty list.
C17_StructuralBreaks ==
    BreaksDone
    => LET n == Len(call.values)
       IN  /\ \A k \in 1..(Len(ret) - 1) : ret[k] < ret[k + 1]
           /\ \A k \in 1..Len(ret) : 5 <= ret[k] /\ ret[k] <= n - 6
           /\ \A i \in 5..(n - 6) :
                (\E k \in 1..Len(ret) : ret[k] = i)
                <=> MeansDiffer(call.values, i, call.sensitivity)
           /\ n <= 10 => ret = <<>>
           /\ AllEqual(call.values) => ret = <<>>

\* C17's case: a step in the middle of twelve values, flagged at the two
\* adjacent indices 5 and 6.
C17_Witness ==
    /\ BreaksDone
    /\ call.values = <<I(0), I(0), I(0), I(0), I(0), I(0),
                       I(1), I(1), I(1), I(1), I(1), I(1)>>
    /\ call.sensitivity = Rat(3, 2)
    /\ ret = <<5, 6>>

\* The last element of vs that is not NaN, 0 when there is none
LastDefined(vs) ==
    LET defined == {p \in 1..Len(vs) : ~isNaN(vs[p])}
    IN  IF defined = {} THEN I(0)
        ELSE vs[CHOOSE p \in defined : \A q \in defined : q <= p]

\* C18: the point at offset i (0-based) has linear = slope * (n + i) +
\* intercept of the OLS fit of the history; ma, ema and wma are the same at
\* every offset and equal the last defined value of the moving, exponential
\* and weighted moving average over the whole history.
C18_ForecastModels ==
    ForecastDone
    => LET n == Len(call.revenues)
           reg == linearRegression(call.revenues)
       IN  \A k \in 1..Len(ret) :
              /\ ret[k].linear
                   = RAdd(RMul(reg.slope, I(n + k - 1)), reg.intercept)
              /\ ret[k].ma = LastDefined(movingAverage(call.revenues, call.maWindow))
              /\ ret[k].ema
                   = LastDefined(exponentialMovingAverage(call.revenues, call.emaAlpha))
              /\ ret[k].wma
                   = LastDefined(weightedMovingAverage(call.revenues, call.maWindow))
              /\ ret[k].ma = ret[1].ma
              /\ ret[k].ema = ret[1].ema
              /\ ret[k].wma = ret[1].wma

\* C18's case: a history on which the three averages differ and the line
\* has a slope, so that over three offsets only linear moves.
C18_Witness ==
    /\ ForecastDone
    /\ call.revenues = <<I(3), I(0), Rat(5, 2), I(3)>>
    /\ call.maWindow = 3
    /\ call.emaAlpha = Rat(1, 2)
    /\ Len(ret) = 3
    /\ ret[3].ma = Rat(11, 6)
    /\ ret[3].wma = Rat(7, 3)
    /\ ret[3].ema = Rat(5, 2)
    /\ ret[1].linear = Rat(11, 4)
    /\ ret[3].linear = Rat(13, 4)

\* ---- Health index: sub-scores and rounding -----------------------------

\* x clamped to [0, 100]
Clamp(x) == IF RLt(x, I(0)) THEN I(0) ELSE IF RLt(I(100), x) THEN I(100) ELSE x

\* The integer r is x rounded to the nearest integer, a half going up
IsRounded(r, x) ==
    /\ r \in Int
    /\ RLe(RSub(I(r), Rat(1, 2)), x)
    /\ RLt(x, RAdd(I(r), Rat(1, 2)))

\* C19: growth = clamp(50 + 100 cagr), stability = clamp(100 (1 - cv)),
\* forecast_reliability = clamp(100 - 2 mape), clamped to [0, 100]; the
\* score is the rounded quarter of the sum of the four unrounded clamped
\* sub-scores (the fourth being the clamped profit sub-score), and each
\* reported component is its own sub-score rounded.
C19_SubScores ==
    HealthDone
    => LET growth == Clamp(RAdd(I(50), RMul(I(100), call.cagr)))
           stability == Clamp(RMul(I(100), RSub(I(1), call.cv)))
           profitability == Clamp(RMul(I(2), call.profit_margin))
           reliability == Clamp(RSub(I(100), RMul(I(2), call.mape)))
           total == RAdd(RAdd(growth, stability), RAdd(profitability, reliability))
       IN  /\ IsRounded(ret.components.growth, growth)
           /\ IsRounded(ret.components.stability, stability)
           /\ IsRounded(ret.components.profitability, profitability)
           /\ IsRounded(ret.components.forecast_reliability, reliability)
           /\ IsRounded(ret.score, RMul(Rat(1, 4), total))

\* C19's case: sub-scores 50, 100, 0.5 and 99 give 62.375, reported as 62,
\* while the reported components 50, 100, 1 and 99 would average to 62.5.
C19_Witness ==
    /\ HealthDone
    /\ call.cagr = I(0) /\ call.cv = I(0)
    /\ call.profit_margin = Rat(1, 4) /\ call.mape = Rat(1, 2)
    /\ ret.components.profitability = 1
    /\ ret.components.forecast_reliability = 99
    /\ ret.score = 62

\* ---- Sensitivity: the formula and the unused argument ------------------

\* C20: for every scenario estimated_revenue = basePrice (1 + dp) *
\* baseQuantity (1 + dq) and estimated_profit = estimated_revenue -
\* totalCost, dp and dq being the scenario's changes; a call that differs
\* only in baseRevenue returns the same results.
C20_ScenarioFormula ==
    SensDone
    => /\ \A k \in 1..Len(ret) :
            LET dp == RDiv(ret[k].price_change, I(100))
                dq == RDiv(ret[k].quantity_change, I(100))
            IN  /\ ret[k].estimated_revenue
                     = RMul(RMul(call.basePrice, RAdd(I(1), dp)),
                            RMul(call.baseQuantity, RAdd(I(1), dq)))
                /\ ret[k].estimated_profit
                     = RSub(ret[k].estimated_revenue, call.totalCost)
       /\ \A other \in SensAmounts :
            sensitivitySimulation(other, call.baseQuantity, call.basePrice,
                                  call.totalCost) = ret

\* C20's case: a base revenue of 0 beside a price of 2 and a quantity of 3;
\* the last scenario's revenue is 1.9 * 2.7 = 5.13 and its profit -5.37.
C20_Witness ==
    /\ SensDone
    /\ call.baseRevenue = I(0)
    /\ call.basePrice = I(2) /\ call.baseQuantity = I(3)
    /\ call.totalCost = Rat(21, 2)
    /\ ret[7].estimated_revenue = Rat(513, 100)
    /\ ret[7].estimated_profit = Rat(-537, 100)

\* ---- Exponential moving average ----------------------------------------

\* C21: exponentialMovingAverage returns as many values as it is given,
\* none of them undefined: the first is the first input and every later one
\* is alpha * value[t] + (1 - alpha) * EMA[t-1]; the empty input gives the
\* empty output.
C21_EmaRecursion ==
    SmoothDone("exponentialMovingAverage")
    => /\ Len(ret) = Len(call.values)
       /\ call.values = <<>> => ret = <<>>
       /\ \A p \in 1..Len(ret) : ~isNaN(ret[p])
       /\ Len(ret) >= 1 => ret[1] = call.values[1]
       /\ \A p \in 2..Len(ret) :
            ret[p] = RAdd(RMul(call.alpha, call.values[p]),
                          RSub(ret[p - 1], RMul(call.alpha, ret[p - 1])))

\* C21's case: three values smoothed with alpha = 0.3.
C21_Witness ==
    /\ SmoothDone("exponentialMovingAverage")
    /\ call.values = <<I(0), I(3), Rat(5, 2)>>
    /\ call.alpha = Rat(3, 10)
    /\ ret = <<I(0), Rat(9, 10), Rat(69, 50)>>

\* ---- Pearson correlation -----------------------------------------------

CorrDone == pc = "done" /\ call.fn = "pearsonCorrelation"

AcfDone == pc = "done" /\ call.fn = "autocorrelation"

\* results is what the description of autocorrelation gives for values and
\* maxLag
AcfDescribed(values, maxLag, results) ==
    LET n == Len(values)
        least == IF maxLag <= n - 1 THEN maxLag ELSE n - 1
        mu == mean64(values)
        denom == acfDenom(values, mu, n)
    IN  /\ Len(results) = IF least >= 0 THEN least ELSE 0
        /\ \A k \in 1..Len(results) : results[k].lag = k
        /\ denom # DblZero
             => \A k \in 1..Len(results) :
                  results[k].correlation = DblDiv(acfNum(values, mu, k, n), denom)
        /\ AllEqual(values)
             => \A k \in 1..Len(results) : results[k].correlation = DblZero

\* C23: autocorrelation returns exactly max(0, min(maxLag, n - 1))
\* entries, for the lags 1, 2, ... in ascending order; each correlation is
\* the lagged cross-product sum divided by the sum of squared deviations of
\* the whole series, and it is 0 at every lag when the series has zero
\* variance, that is when all its values are equal.
C23_Autocorrelation == AcfDone => AcfDescribed(call.values, call.maxLag, ret)

\* ---- Error metrics ----------------------------------------------------

ErrDone == pc = "done" /\ call.fn = "errorMetrics"

\* The positions among the first n whose forecast is a number
Forecasted(forecast, n) == {i \in 1..n : ~isNaN(forecast[i])}

\* What the description of errorMetrics gives for actual and forecast: the
\* absolute and squared errors of the forecasted positions, summed and
\* divided by the number n of compared positions; the percentage errors of
\* the forecasted positions with a non-zero actual, averaged over those
ErrDescribed(actual, forecast, metrics) ==
    LET n == IF Len(actual) <= Len(forecast) THEN Len(actual) ELSE Len(forecast)
        error(i) == RSub(actual[i], forecast[i])
        absolute == [i \in 1..n |-> IF i \in Forecasted(forecast, n)
                                    THEN RAbs(error(i)) ELSE I(0)]
        squared == [i \in 1..n |-> IF i \in Forecasted(forecast, n)
                                   THEN RMul(error(i), error(i)) ELSE I(0)]
        rated == {i \in Forecasted(forecast, n) : actual[i] # I(0)}
        percent == [i \in 1..n |-> IF i \in rated
                                   THEN RAbs(RDiv(error(i), actual[i])) ELSE I(0)]
    IN  IF n = 0
        THEN metrics = [mae |-> I(0), mse |-> I(0), rmse |-> SZero, mape |-> I(0)]
        ELSE /\ metrics.mae = RDiv(Sum(absolute), I(n))
             /\ metrics.mse = RDiv(Sum(squared), I(n))
             /\ metrics.rmse = MathSqrt(metrics.mse)
             /\ metrics.mape = IF rated = {} THEN I(0)
                               ELSE RMul(RDiv(Sum(percent), I(Cardinality(rated))), I(100))

\* C30: errorMetrics skips the positions whose forecast is NaN but divides
\* the absolute and the squared error sums by the full n = min(lengths);
\* mape is the mean over the positions with a forecast and a non-zero
\* actual, times 100, and 0 when there is none; all four metrics are 0
\* when n = 0.
C30_ErrorMetrics == ErrDone => ErrDescribed(call.actual, call.forecast, ret)

\* One of two positions has no forecast: the sums of the other one are
\* halved, its percentage error is not
C30_Witness ==
    /\ ErrDone
    /\ call.actual = <<I(2), I(4)>>
    /\ call.forecast = <<NaN, I(1)>>
    /\ ret = [mae |-> Rat(3, 2), mse |-> Rat(9, 2),
              rmse |-> <<I(0), Rat(3, 2), 2>>, mape |-> I(75)]


\* ---- The order store ----------------------------------------------------

OrderIdsDistinct(orders) ==
    \A i, j \in 1..Len(orders) : orders[i].id = orders[j].id => i = j

\* The number of entries with the id among the first n of orders
RECURSIVE CountId(_, _, _)
CountId(orders, id, n) ==
    IF n = 0 THEN 0
    ELSE CountId(orders, id, n - 1) + (IF orders[n].id = id THEN 1 ELSE 0)

\* after is before with the order saved: in the place of the order of the
\* same id when there is one, the length unchanged, and else at the end
SavedInto(before, order, after) ==
    IF \E i \in 1..Len(before) : before[i].id = order.id
    THEN /\ Len(after) = Len(before)
         /\ \A i \in 1..Len(before) :
                after[i] = IF before[i].id = order.id THEN order ELSE before[i]
    ELSE after = Append(before, order)

\* after is before without the orders of the id: none of them is left, and
\* every other order has moved down by the number of them before it
DeletedFrom(before, id, after) ==
    /\ \A i \in 1..Len(after) : after[i].id # id
    /\ Len(after) = Len(before) - CountId(before, id, Len(before))
    /\ \A i \in 1..Len(before) :
           before[i].id # id => after[i - CountId(before, id, i)] = before[i]

\* C25: from a store of pairwise distinct order ids, the ids stay pairwise
\* distinct under saveOrder and deleteOrder; saveOrder of a stored id
\* replaces that order in its place, saveOrder of a new id appends the
\* order, and deleteOrder(id) leaves no order of that id and the others as
\* they were, in the same order.
C25_OrderIdsDistinct ==
    /\ [] OrderIdsDistinct(getOrders(localStorage))
    /\ [][/\ call'.fn = "saveOrder"
               => SavedInto(getOrders(localStorage), call'.order,
                            getOrders(localStorage'))
          /\ call'.fn = "deleteOrder"
               => DeletedFrom(getOrders(localStorage), call'.id,
                              getOrders(localStorage'))]_vars

\* An order was replaced: the order just saved stands before another one
C25_Witness ==
    /\ call = [fn |-> "saveOrder", order |-> [id |-> 1, locked |-> FALSE, quantity |-> 2]]
    /\ getOrders(localStorage)
         = <<[id |-> 1, locked |-> FALSE, quantity |-> 2],
             [id |-> 2, locked |-> FALSE, quantity |-> 1]>>

\* ---- The PIN ------------------------------------------------------------

\* C26: while no PIN is stored verifyPin accepts every input and isPinSet
\* is false; after setPin(p) for a 4-digit p, isPinSet is true and
\* verifyPin(q) holds for a 4-digit q exactly when q = p; verifyPin and
\* isPinSet return what the stored PIN gives and store nothing.  hashPin
\* gives pairwise different, non-empty strings for the 4-digit PINs over
\* all ten digits.
C26_PinVerification ==
    /\ Cardinality({hashPin(p) : p \in [1..PinLength -> 0..9]}) = 10000
    /\ \A p \in [1..PinLength -> 0..9] : hashPin(p) # <<>>
    /\ [](localStorage[KEYS.CONFIG] = <<>>
            => /\ ~isPinSet(localStorage)
               /\ \A q \in PinInputs : verifyPin(localStorage, q))
    /\ [](call.fn = "verifyPin" => ret = verifyPin(localStorage, call.pin))
    /\ [](call.fn = "isPinSet" => ret = isPinSet(localStorage))
    /\ [][call'.fn = "setPin"
            => /\ isPinSet(localStorage')
               /\ \A q \in Pins : verifyPin(localStorage', q) <=> q = call'.pin]_vars

\* A wrong 4-digit PIN was refused
C26_Witness ==
    /\ call = [fn |-> "verifyPin", pin |-> <<0, 9, 9, 0>>]
    /\ ret = FALSE
    /\ getConfig(localStorage).pin_hash = hashPin(<<0, 9, 0, 9>>)


\* ---- The PIN screen -----------------------------------------------------

\* The step ran the timeout callback of a confirmation that does not match
ConfirmMismatch ==
    /\ call'.fn = "timeout"
    /\ call'.callback.run = "compare"
    /\ call'.callback.next # call'.callback.pin

\* C27: however digit presses, backspaces and the 150 ms timeouts
\* interleave, onAuthenticated is invoked only in enter mode for a 4-digit
\* entry that verifyPin accepts, or in confirm mode for a 4-digit
\* confirmation equal to the setup entry, and then exactly that PIN is
\* stored; a confirmation that does not match stores nothing, clears both
\* entries and returns to setup mode; enter mode is never left.
C27_OnAuthenticated ==
    [][/\ ret' = "onAuthenticated"
            => \/ /\ screen.mode = "enter"
                  /\ Len(call'.callback.next) = PinLength
                  /\ verifyPin(localStorage, call'.callback.next)
               \/ /\ screen.mode = "confirm"
                  /\ Len(call'.callback.next) = PinLength
                  /\ call'.callback.next = screen.pin
                  /\ getConfig(localStorage').pin_hash = hashPin(screen.pin)
       /\ ConfirmMismatch
            => /\ localStorage' = localStorage
               /\ screen'.pin = <<>>
               /\ screen'.confirmPin = <<>>
               /\ screen'.mode = "setup"
       /\ screen.mode = "enter" => screen'.mode = "enter"]_vars


\* ---- The sales-entry screen ---------------------------------------------

\* The order store holds a sale of the id
Stored(storage, id) == id \in IdsIn(getOrders(storage))

\* The lock that toggleLock last wrote for the sale of the id is on
LockWritten(storage, id) ==
    \E i \in 1..Len(get(storage, "orders", <<>>)) :
        /\ get(storage, "orders", <<>>)[i].id = id
        /\ get(storage, "orders", <<>>)[i].locked

\* C24: a locked entry cannot be deleted: when toggleLock(id) has locked a
\* stored sale, the handleDelete(id) that follows leaves the sale in the
\* order store; when it has unlocked the sale, handleDelete(id) deletes it.
C24_LockedNotDeleted ==
    [][(/\ call.fn = "toggleLock"
        /\ call'.fn = "handleDelete"
        /\ call'.id = call.id
        /\ Stored(localStorage, call.id))
           => IF LockWritten(localStorage, call.id)
              THEN Stored(localStorage', call.id)
              ELSE ~Stored(localStorage', call.id)]_vars

\* C28: the timeout of an earlier deletion never clears the undo offer of
\* a later one.  Every deletion starts one timeout of 5 seconds and makes
\* its sale the offer, and those timeouts run in the order they were
\* started: the timeout that clears an offer is that of the offer's own
\* deletion exactly when no timeout of a deletion is left pending.
C28_UndoOfferKept ==
    [][(/\ call'.fn = "timeout"
        /\ screen.undoOrder # <<>>
        /\ screen'.undoOrder = <<>>)
           => \A i \in 1..Len(timers') : timers'[i].run # "undo"]_vars

\* C29: UNDO leaves localStorage as it is, the deleted sale stays out of
\* getOrders(); the cloud gets one new revenueEntries document, of the
\* sale, when a user is signed in and is left as it is when none is;
\* trashEntries is left as it is.
C29_UndoWritesCloudOnly ==
    [][call'.fn = "undo"
         => /\ localStorage' = localStorage
            /\ ~Stored(localStorage', screen.undoOrder[1].id)
            /\ cloud'.trashEntries = cloud.trashEntries
            /\ IF cloud.user
               THEN /\ Len(cloud'.revenueEntries) = Len(cloud.revenueEntries) + 1
                    /\ SubSeq(cloud'.revenueEntries, 1, Len(cloud.revenueEntries))
                         = cloud.revenueEntries
                    /\ cloud'.revenueEntries[Len(cloud'.revenueEntries)].data
                         = screen.undoOrder[1]
               ELSE cloud' = cloud]_vars

\* UNDO was pressed by a signed-in user for a sale that was moved to the
\* trash: the trash keeps it, the entries have it again
C29_Witness ==
    /\ call.fn = "undo"
    /\ cloud.user
    /\ Len(cloud.trashEntries) = 1
    /\ Len(cloud.revenueEntries) = 1
    /\ cloud.trashEntries[1].data.id = cloud.revenueEntries[1].data.id
    /\ getOrders(localStorage) = <<>>


====
